---------------------------- MODULE Spec2Model ----------------------------
(***************************************************************************)
(* Model of the stock dashboard's feed pipeline: the price normalizer      *)
(* (parsePrice), the feed cache (FeedService.processFeeds and the clear    *)
(* operations) and the poll scheduler (startPollingAllStocks,              *)
(* switchToSingleStockPolling, stopPolling and the RxJS pipelines they     *)
(* subscribe).                                                             *)
(*                                                                         *)
(* Conventions.                                                            *)
(*  - A JS Map is a function whose DOMAIN is the set of keys present.      *)
(*  - "number | null" (a normalized price) and "Date | null" are tuples:   *)
(*    <<>> is null, <<v>> is the value v.                                  *)
(*  - A JS number is an IEEE 754 double. A finite one is the record       *)
(*    [neg, m, x] of the value (-1)^neg * m * 2^x, m odd, or a signed      *)
(*    zero; NaN and the infinities are separate values. Parsing and the    *)
(*    arithmetic operators round the exact result to the nearest double,   *)
(*    ties to even, with subnormals and with overflow to an infinity.      *)
(*  - A JS string is the sequence of its characters; a character that a    *)
(*    TLA+ string cannot hold is written by its code point ("U+00A0").     *)
(***************************************************************************)
EXTENDS Integers, Sequences, FiniteSets, TLC

(***************************************************************************)
(* Program constants and the bounds of the model.                          *)
(***************************************************************************)
MAX_FEED_HISTORY == 100

POLLING_INTERVAL_MS == 1000

\* Number of screens opened in one behaviour.
MaxScreens == 3

\* Longest history the computed views are read on.
MaxReadings == 2

\* Length of the price strings the normalizer is given.
MaxRawLen == 3

\* Number of HTTP feed requests issued in one behaviour.
MaxFetches == 3

\* Number of interval subscriptions alive at once that the model represents.
MaxTimers == 2

\* The warm start: the cache has already taken MAX_FEED_HISTORY - WarmGap
\* all-stock batches when the observed behaviour begins (or none at all).
WarmGap == 1

StockIds == {1, 2}

AllStockIds == <<1, 2>>

\* The stocks whose detail screen is opened (the route's id): stock 1 is the
\* stock polled alone, stock 2 the one that is then not polled.
DetailStockIds == {1}

(***************************************************************************)
(* JS values.                                                              *)
(***************************************************************************)
Null == <<>>

Some(v) == <<v>>

\* A natural number of any size (an integer has 32 bits here): the sequence of
\* its digits in base 2^15, the lowest first, without a leading zero digit;
\* <<>> is 0.
Base == 32768

Max(a, b) == IF a < b THEN b ELSE a

Min(a, b) == IF a < b THEN a ELSE b

RECURSIVE Big(_)
Big(n) == IF n = 0 THEN <<>> ELSE <<n % Base>> \o Big(n \div Base)

\* The digits f[1], ..., f[n] of a function f on 1..n, as a sequence.
Digits15(f) == f \o <<>>

Limb(a, i) == IF 1 <= i /\ i <= Len(a) THEN a[i] ELSE 0

\* a without its leading zero digits
BigTrim(a) ==
  IF a = <<>> \/ a[Len(a)] # 0 THEN a
  ELSE IF \A i \in 1..Len(a) : a[i] = 0 THEN <<>>
  ELSE SubSeq(a, 1, CHOOSE i \in 1..Len(a) :
                      a[i] # 0 /\ \A j \in (i + 1)..Len(a) : a[j] = 0)

\* -1, 0 or 1 as a < b, a = b or a > b
BigCmp(a, b) ==
  IF Len(a) # Len(b) THEN (IF Len(a) < Len(b) THEN -1 ELSE 1)
  ELSE IF a = b THEN 0
  ELSE LET top == CHOOSE i \in 1..Len(a) :
                    a[i] # b[i] /\ \A j \in (i + 1)..Len(a) : a[j] = b[j]
       IN  IF a[top] < b[top] THEN -1 ELSE 1

\* a + b: digit i takes a carry when the nearest digit below it whose sum is
\* not Base - 1 overflows.
BigAdd(a, b) ==
  IF a = <<>> THEN b
  ELSE IF b = <<>> THEN a
  ELSE LET n == Max(Len(a), Len(b))
           sum(i) == Limb(a, i) + Limb(b, i)
           carry(i) ==
             IF \A k \in 1..(i - 1) : sum(k) = Base - 1 THEN 0
             ELSE LET d == CHOOSE d \in 1..(i - 1) :
                             sum(i - d) # Base - 1 /\ \A k \in 1..(d - 1) : sum(i - k) = Base - 1
                  IN  IF sum(i - d) >= Base THEN 1 ELSE 0
       IN  BigTrim(Digits15([i \in 1..(n + 1) |-> (sum(i) + carry(i)) % Base]))

\* a - b for a >= b: digit i gives a borrow when the nearest digit below it
\* whose difference is not 0 is negative.
BigSub(a, b) ==
  IF a = <<>> \/ b = <<>> THEN a
  ELSE LET diff(i) == a[i] - Limb(b, i)
           borrow(i) ==
             IF \A k \in 1..(i - 1) : diff(k) = 0 THEN 0
             ELSE LET d == CHOOSE d \in 1..(i - 1) :
                             diff(i - d) # 0 /\ \A k \in 1..(d - 1) : diff(i - k) = 0
                  IN  IF diff(i - d) < 0 THEN 1 ELSE 0
       IN  BigTrim(Digits15([i \in 1..Len(a) |-> (diff(i) - borrow(i) + Base) % Base]))

\* a * Base^k
BigShiftLimbs(a, k) == IF a = <<>> \/ k = 0 THEN a ELSE [i \in 1..k |-> 0] \o a

\* a * k for 0 <= k <= Base: the low and the high digits of the products of
\* the digits, added.
BigMulSmall(a, k) ==
  IF a = <<>> \/ k = 0 THEN <<>>
  ELSE BigAdd(Digits15([i \in 1..Len(a) |-> (a[i] * k) % Base]),
              <<0>> \o Digits15([i \in 1..Len(a) |-> (a[i] * k) \div Base]))

\* a times the digits lo..hi of b, at their places: the products of a by
\* the digits, added by halves.
RECURSIVE BigMulRange(_, _, _, _)
BigMulRange(a, b, lo, hi) ==
  IF lo = hi THEN BigShiftLimbs(BigMulSmall(a, b[lo]), lo - 1)
  ELSE BigAdd(BigMulRange(a, b, lo, (lo + hi) \div 2),
              BigMulRange(a, b, (lo + hi) \div 2 + 1, hi))

\* a * b
BigMul(a, b) ==
  IF a = <<>> \/ b = <<>> THEN <<>>
  ELSE BigMulRange(IF Len(a) < Len(b) THEN b ELSE a, IF Len(a) < Len(b) THEN a ELSE b,
                   1, Min(Len(a), Len(b)))

\* a * 2^n and floor(a / 2^n)
BigShl(a, n) ==
  LET w == n \div 15
      r == n % 15
  IN  IF a = <<>> \/ r = 0 THEN BigShiftLimbs(a, w)
      ELSE BigTrim(Digits15([i \in 1..(Len(a) + w + 1) |->
                      (Limb(a, i - w) % 2^(15 - r)) * 2^r + Limb(a, i - w - 1) \div 2^(15 - r)]))

BigShr(a, n) ==
  LET w == n \div 15
      r == n % 15
  IN  IF w >= Len(a) THEN <<>>
      ELSE BigTrim(Digits15([i \in 1..(Len(a) - w) |->
                      Limb(a, i + w) \div 2^r + (Limb(a, i + w + 1) % 2^r) * 2^(15 - r)]))

RECURSIVE BitLength(_)
BitLength(n) == IF n = 0 THEN 0 ELSE 1 + BitLength(n \div 2)

\* The number of binary digits of a: 2^(l - 1) <= a < 2^l for a # 0.
BigBitLength(a) ==
  IF a = <<>> THEN 0 ELSE 15 * (Len(a) - 1) + BitLength(a[Len(a)])

RECURSIVE TrailingZeros(_)
TrailingZeros(n) == IF n % 2 = 1 THEN 0 ELSE 1 + TrailingZeros(n \div 2)

\* The number of factors 2 of a # 0.
BigTrailingZeros(a) ==
  LET low == CHOOSE i \in 1..Len(a) : a[i] # 0 /\ \A j \in 1..(i - 1) : a[j] = 0
  IN  15 * (low - 1) + TrailingZeros(a[low])

BigSquare(a) == BigMul(a, a)

\* 5^k, by squaring
RECURSIVE BigPow5(_)
BigPow5(k) ==
  IF k < 14 THEN Big(5^k) ELSE BigMulSmall(BigSquare(BigPow5(k \div 2)), 5^(k % 2))

\* The next digit of a long division by d, whose top digit is Base / 2 or
\* more, and what it leaves of the running remainder run: est or less.
RECURSIVE DivDigit(_, _, _)
DivDigit(run, d, est) ==
  LET prod == BigMulSmall(d, est)
  IN  IF BigCmp(prod, run) <= 0 THEN [q |-> est, r |-> BigSub(run, prod)]
      ELSE DivDigit(run, d, est - 1)

\* The quotient of the two top digits of run by the top digit of d is the
\* next digit of the quotient or exceeds it by 1 or 2.
DivStep(run, d) ==
  DivDigit(run, d, Min(Base - 1,
                       (Limb(run, Len(d) + 1) * Base + Limb(run, Len(d))) \div d[Len(d)]))

\* Long division, digit by digit from the top, of n by d: digits i..1 of n
\* are still to be taken, q are the digits of the quotient found (none for
\* the leading zeros) and rem is what the digits of n above digit i left.
RECURSIVE BigDivModFrom(_, _, _, _, _)
BigDivModFrom(n, d, i, q, rem) ==
  LET Next(step) ==
        IF step.q = 0 /\ q = <<>> THEN BigDivModFrom(n, d, i - 1, q, step.r)
        ELSE BigDivModFrom(n, d, i - 1, <<step.q>> \o q, step.r)
  IN  IF i = 0 THEN [q |-> q, r |-> rem] ELSE Next(DivStep(BigTrim(<<n[i]>> \o rem), d))

\* Short division of n by a one-digit divisor d; rem < d.
RECURSIVE BigDivModSmallFrom(_, _, _, _, _)
BigDivModSmallFrom(n, d, i, q, rem) ==
  IF i = 0 THEN [q |-> q, r |-> Big(rem)]
  ELSE IF (rem * Base + n[i]) \div d = 0 /\ q = <<>>
       THEN BigDivModSmallFrom(n, d, i - 1, q, (rem * Base + n[i]) % d)
  ELSE BigDivModSmallFrom(n, d, i - 1, <<(rem * Base + n[i]) \div d>> \o q,
                          (rem * Base + n[i]) % d)

\* The value of a number of two digits at most.
Small(a) == Limb(a, 1) + Base * Limb(a, 2)

\* floor(n / d) and n mod d, d # 0. The long division is of n and d times
\* 2^sh, which leaves the remainder times 2^sh.
BigDivMod(n, d) ==
  LET sh == 15 - BitLength(d[Len(d)])
      ns == BigShl(n, sh)
      Result(qr) == [q |-> qr.q, r |-> BigShr(qr.r, sh)]
  IN  IF Len(n) < Len(d) THEN [q |-> <<>>, r |-> n]
      ELSE IF Len(n) <= 2
           THEN [q |-> Big(Small(n) \div Small(d)), r |-> Big(Small(n) % Small(d))]
      ELSE IF Len(d) = 1 THEN BigDivModSmallFrom(n, d[1], Len(n), <<>>, 0)
      ELSE Result(BigDivModFrom(ns, BigShl(d, sh), Len(ns) - Len(d) + 1, <<>>,
                                SubSeq(ns, Len(ns) - Len(d) + 2, Len(ns))))

\* A real number (a rational one): (-1)^neg * num / den * 2^x, den # 0.
Real(neg, num, den, x) == [neg |-> neg, num |-> num, den |-> den, x |-> x]

\* The real (-1)^neg * digits * 10^e (10^e is 5^e * 2^e), and the decimal
\* m * 10^e.
ScaledReal(neg, digits, e, pow) ==
  IF e > 0 THEN Real(neg, BigMul(pow, digits), <<1>>, e) ELSE Real(neg, digits, pow, e)

DecimalReal(neg, digits, e) ==
  IF e = 0 THEN Real(neg, digits, <<1>>, 0)
  ELSE ScaledReal(neg, digits, e, BigPow5(IF e < 0 THEN -e ELSE e))

\* The value of a finite double: (-1)^neg * m * 2^x with m odd, or a zero
\* (m = 0 and x = 0), which has a sign of its own.
Double(neg, q, u) ==
  IF q = <<>> THEN [neg |-> neg, m |-> <<>>, x |-> 0]
  ELSE IF q[1] % 2 = 1 THEN [neg |-> neg, m |-> q, x |-> u]
  ELSE LET z == BigTrailingZeros(q)
       IN  [neg |-> neg, m |-> BigShr(q, z), x |-> u + z]

Zero == [neg |-> FALSE, m |-> <<>>, x |-> 0]

SignedZero(neg) == [neg |-> neg, m |-> <<>>, x |-> 0]

IsZero(v) == v.m = <<>>

\* a - b, a / b (b # 0) and a * b of the values of two finite doubles, as
\* reals (exactly).
MinusAligned(aneg, am, bneg, bm, x) ==
  LET c == BigCmp(am, bm)
  IN  IF aneg # bneg THEN Real(IF am # <<>> THEN aneg ELSE ~bneg, BigAdd(am, bm), <<1>>, x)
      ELSE IF c = 0 THEN Real(FALSE, <<>>, <<1>>, 0)
      ELSE IF c > 0 THEN Real(aneg, BigSub(am, bm), <<1>>, x)
      ELSE Real(~aneg, BigSub(bm, am), <<1>>, x)

Minus(a, b) ==
  LET x == IF IsZero(a) THEN b.x ELSE IF IsZero(b) THEN a.x ELSE Min(a.x, b.x)
      Aligned(v) == IF IsZero(v) THEN <<>> ELSE BigShl(v.m, v.x - x)
  IN  MinusAligned(a.neg, Aligned(a), b.neg, Aligned(b), x)

Over(a, b) == Real(a.neg # b.neg, a.m, b.m, a.x - b.x)

Times(a, b) == Real(a.neg # b.neg, BigMul(a.m, b.m), <<1>>, a.x + b.x)

\* -1, 0 or 1 as |a| < |b|, |a| = |b| or |a| > |b| for the values of two
\* finite doubles: by the positions of their leading binary digits, then
\* by their digits.
CompareMagnitude(a, b) ==
  LET ta == BigBitLength(a.m) + a.x
      tb == BigBitLength(b.m) + b.x
      x  == Min(a.x, b.x)
  IN  IF IsZero(a) \/ IsZero(b)
      THEN (IF IsZero(a) /\ IsZero(b) THEN 0 ELSE IF IsZero(a) THEN -1 ELSE 1)
      ELSE IF ta # tb THEN (IF ta < tb THEN -1 ELSE 1)
      ELSE BigCmp(BigShl(a.m, a.x - x), BigShl(b.m, b.x - x))

\* a < b on the values of two finite doubles (-0 is not less than +0).
Less(a, b) ==
  IF a = b THEN FALSE
  ELSE IF a.neg # b.neg THEN a.neg /\ ~(IsZero(a) /\ IsZero(b))
  ELSE CompareMagnitude(IF a.neg THEN b ELSE a, IF a.neg THEN a ELSE b) < 0

\* floor(log2 |r|) of a real r # 0, l being the difference of the numbers
\* of binary digits of its numerator and its denominator.
FloorLog2(r) ==
  LET From(l) ==
        IF l >= 0
        THEN r.x + l - (IF BigCmp(r.num, BigShl(r.den, l)) >= 0 THEN 0 ELSE 1)
        ELSE r.x + l - (IF BigCmp(BigShl(r.num, -l), r.den) >= 0 THEN 0 ELSE 1)
  IN  From(BigBitLength(r.num) - BigBitLength(r.den))

\* |r| is 2^1024 - 2^970 (half an ulp above Number.MAX_VALUE) or more: r is
\* past the range of a double.
Overflows(r) ==
  /\ r.num # <<>>
  /\ LET top == FloorLog2(r)
     IN  \/ top > 1023
         \/ /\ top = 1023
            /\ LET s == r.x - 970
                   n == IF s >= 0 THEN BigShl(r.num, s) ELSE r.num
                   d == IF s >= 0 THEN r.den ELSE BigShl(r.den, -s)
               IN  BigCmp(n, BigSub(BigShl(d, 54), d)) >= 0

Finite(v) == [kind |-> "finite", val |-> v]

NaN == [kind |-> "NaN", val |-> Zero]

PosInfinity == [kind |-> "Infinity", val |-> [neg |-> FALSE, m |-> <<1>>, x |-> 0]]

NegInfinity == [kind |-> "Infinity", val |-> [neg |-> TRUE, m |-> <<1>>, x |-> 0]]

\* isFinite(x) for a JS number x
isFinite(x) == x.kind = "finite"

SignedInfinity(neg) == IF neg THEN NegInfinity ELSE PosInfinity

\* The real r is a double: an integer below 2^53 times a power of 2 within
\* the exponents of a double.
IsDouble(r) ==
  /\ r.den = <<1>>
  /\ BigBitLength(r.num) <= 53
  /\ r.x >= -1074
  /\ BigBitLength(r.num) + r.x <= 1024

\* The multiple of 2^u nearest to the real r # 0, the even one of two at
\* the same distance, as a double; an infinity when it is 2^1024 or more.
\* |r| / 2^u is n / d, qr are the quotient and the rest of that division
\* and c compares the rest, doubled, with d.
RoundAt(r, u) ==
  LET d == IF r.x >= u THEN r.den ELSE BigShl(r.den, u - r.x)
      Rounded(q) ==
        IF BigBitLength(q) + u > 1024 THEN SignedInfinity(r.neg)
        ELSE Finite(Double(r.neg, q, u))
      HalfEven(q, c) ==
        Rounded(IF c > 0 \/ (c = 0 /\ q # <<>> /\ q[1] % 2 = 1) THEN BigAdd(q, <<1>>) ELSE q)
      Quotient(qr) == HalfEven(qr.q, BigCmp(BigShl(qr.r, 1), d))
  IN  Quotient(BigDivMod(IF r.x >= u THEN BigShl(r.num, r.x - u) ELSE r.num, d))

\* The double nearest to the real r # 0 (IEEE 754 binary64, to nearest, ties
\* to even): r itself when it is a double, else r rounded at the unit in
\* the last place at its magnitude (2^-1074 for the subnormals).
Nearest(r) ==
  IF IsDouble(r) THEN Finite(Double(r.neg, r.num, r.x))
  ELSE RoundAt(r, Max(FloorLog2(r) - 52, -1074))

\* The double that the real r is rounded to. A quotient whose denominator
\* divides its numerator is taken as the integer it is.
ToDouble(r) ==
  LET Whole(qr) == IF qr.r = <<>> THEN Real(r.neg, qr.q, <<1>>, r.x) ELSE r
  IN  IF r.num = <<>> THEN Finite(SignedZero(r.neg))
      ELSE Nearest(IF r.den = <<1>> THEN r ELSE Whole(BigDivMod(r.num, r.den)))

\* The number 100 of the program text.
Hundred == Finite([neg |-> FALSE, m |-> <<25>>, x |-> 2])

\* The number that a decimal literal of the program text or of JSON denotes.
Literal(m, e) == ToDouble(DecimalReal(m < 0, Big(IF m < 0 THEN -m ELSE m), e))

\* The number m * 2^x, which is a double as it stands (|m| < 2^31).
Dyadic(m, x) == Finite(Double(m < 0, Big(IF m < 0 THEN -m ELSE m), x))

\* The JS operators x - y, x / y and x * y on numbers.
JsMinus(x, y) ==
  IF x.kind = "NaN" \/ y.kind = "NaN" THEN NaN
  ELSE IF x.kind = "Infinity" THEN (IF y = x THEN NaN ELSE x)
  ELSE IF y.kind = "Infinity" THEN SignedInfinity(~y.val.neg)
  ELSE IF IsZero(x.val) /\ IsZero(y.val)
       THEN Finite(SignedZero(x.val.neg /\ ~y.val.neg))
  ELSE ToDouble(Minus(x.val, y.val))

JsDivide(x, y) ==
  IF x.kind = "NaN" \/ y.kind = "NaN" THEN NaN
  ELSE IF x.kind = "Infinity"
       THEN (IF y.kind = "Infinity" THEN NaN
             ELSE SignedInfinity(x.val.neg # y.val.neg))
  ELSE IF y.kind = "Infinity" THEN Finite(SignedZero(x.val.neg # y.val.neg))
  ELSE IF IsZero(y.val)
       THEN (IF IsZero(x.val) THEN NaN ELSE SignedInfinity(x.val.neg # y.val.neg))
  ELSE ToDouble(Over(x.val, y.val))

JsTimes(x, y) ==
  IF x.kind = "NaN" \/ y.kind = "NaN" THEN NaN
  ELSE IF x.kind = "Infinity" \/ y.kind = "Infinity"
       THEN (IF (x.kind = "finite" /\ IsZero(x.val)) \/ (y.kind = "finite" /\ IsZero(y.val))
             THEN NaN
             ELSE SignedInfinity(x.val.neg # y.val.neg))
  ELSE ToDouble(Times(x.val, y.val))

\* x === y on numbers: NaN equals nothing, -0 equals +0.
StrictEquals(x, y) ==
  /\ x.kind # "NaN" /\ y.kind # "NaN"
  /\ x = y \/ (x.kind = "finite" /\ y.kind = "finite" /\ IsZero(x.val) /\ IsZero(y.val))

NumberValue(x) == [type |-> "number", num |-> x, str |-> <<>>]

StringValue(s) == [type |-> "string", num |-> NaN, str |-> s]

Digits == <<"0", "1", "2", "3", "4", "5", "6", "7", "8", "9">>

DigitChars == { Digits[d] : d \in 1..10 }

DigitValues == [c \in DigitChars |-> (CHOOSE d \in 1..10 : Digits[d] = c) - 1]

InfinityLiteral == <<"I", "n", "f", "i", "n", "i", "t", "y">>

\* StrWhiteSpaceChar: the white space and the line terminators of ECMAScript.
WhiteSpace ==
  {" ", "\t", "\n", "\r", "\f", "U+000B", "U+00A0", "U+1680", "U+2000", "U+2001",
   "U+2002", "U+2003", "U+2004", "U+2005", "U+2006", "U+2007", "U+2008", "U+2009",
   "U+200A", "U+2028", "U+2029", "U+202F", "U+205F", "U+3000", "U+FEFF"}

\* The length of the longest prefix of s whose characters are all in chars.
PrefixIn(s, chars) ==
  CHOOSE k \in 0..Len(s) :
    /\ \A j \in 1..k : s[j] \in chars
    /\ k = Len(s) \/ s[k + 1] \notin chars

TrimStart(s) == SubSeq(s, PrefixIn(s, WhiteSpace) + 1, Len(s))

LeadingDigits(s) == SubSeq(s, 1, PrefixIn(s, DigitChars))

RECURSIVE DecimalValue(_)
DecimalValue(ds) ==
  IF ds = <<>> THEN 0
  ELSE 10 * DecimalValue(SubSeq(ds, 1, Len(ds) - 1)) + DigitValues[ds[Len(ds)]]

\* The value of the digits of a mantissa, which may be many: four digits
\* at a time from digit i on, acc the value of the digits before it.
RECURSIVE BigDecimalValueFrom(_, _, _)
BigDecimalValueFrom(ds, i, acc) ==
  IF i > Len(ds) THEN acc
  ELSE IF acc = <<>>
       THEN BigDecimalValueFrom(ds, i + 4, Big(DecimalValue(SubSeq(ds, i, Min(i + 3, Len(ds))))))
  ELSE BigDecimalValueFrom(ds, i + 4,
         BigAdd(BigMulSmall(acc, 10^(Min(i + 3, Len(ds)) - i + 1)),
                Big(DecimalValue(SubSeq(ds, i, Min(i + 3, Len(ds)))))))

BigDecimalValue(ds) ==
  IF Len(ds) <= 4 THEN Big(DecimalValue(ds)) ELSE BigDecimalValueFrom(ds, 1, <<>>)

\* The double of the decimal (-1)^neg * digits * 10^e. A decimal of
\* 10^309 or more is past every double and one below 2^-1075 rounds to a
\* zero, whatever its digits.
DecimalToDouble(neg, digits, e) ==
  IF digits = <<>> THEN Finite(SignedZero(neg))
  ELSE IF e > 308 THEN SignedInfinity(neg)
  ELSE IF 3 * (-e) - BigBitLength(digits) > 1075 THEN Finite(SignedZero(neg))
  ELSE ToDouble(DecimalReal(neg, digits, e))

\* The value of the ExponentPart that s begins with (e or E, an optional
\* sign, one digit or more), 0 when s begins with none.
ExponentValue(s) ==
  LET signed == Len(s) >= 2 /\ s[2] \in {"-", "+"}
      ds     == LeadingDigits(SubSeq(s, IF signed THEN 3 ELSE 2, Len(s)))
  IN  IF s # <<>> /\ s[1] \in {"e", "E"} /\ ds # <<>>
      THEN (IF signed /\ s[2] = "-" THEN -1 ELSE 1) * DecimalValue(ds)
      ELSE 0

\* parseFloat(string): leading white space, an optional sign, then either
\* the literal Infinity or the longest prefix that is a decimal literal
\* (digits, a fraction, an exponent); NaN when there is none.
parseFloat(s) ==
  LET t      == TrimStart(s)
      signed == t # <<>> /\ t[1] \in {"-", "+"}
      neg    == t # <<>> /\ t[1] = "-"
      u      == IF signed THEN Tail(t) ELSE t
      ip     == LeadingDigits(u)
      rest   == SubSeq(u, Len(ip) + 1, Len(u))
      dotted == rest # <<>> /\ rest[1] = "."
      fp     == IF dotted THEN LeadingDigits(Tail(rest)) ELSE <<>>
      after  == IF dotted THEN SubSeq(rest, Len(fp) + 2, Len(rest)) ELSE rest
  IN  IF SubSeq(u, 1, Min(Len(u), Len(InfinityLiteral))) = InfinityLiteral THEN SignedInfinity(neg)
      ELSE IF ip = <<>> /\ fp = <<>> THEN NaN
      ELSE DecimalToDouble(neg, BigDecimalValue(ip \o fp),
                           ExponentValue(after) - Len(fp))

\* Mutant of parsePrice: the isFinite checks are missing.
parsePriceUnchecked(value) ==
  IF value.type = "string" THEN Some(parseFloat(value.str)) ELSE Some(value.num)

\* parsePrice(value: number | string): number | null, the number as a JS
\* number.
parsePrice(value) ==
  LET FiniteOrNull(parsed) == IF ~isFinite(parsed) THEN Null ELSE Some(parsed)
  IN  IF value.type = "string" THEN FiniteOrNull(parseFloat(value.str))
      ELSE FiniteOrNull(value.num)

\* A price as the cache holds it: null, or the value of the finite number.
PriceValue(price) == IF price = Null THEN Null ELSE Some(price[1].val)

\* new Date(response.LastUpdate): the server's ISO-8601 string is the pair
\* <<"iso", t>>, the Date its epoch time t in milliseconds.
NewDate(lastUpdate) == lastUpdate[2]

IsoString(t) == <<"iso", t>>

(***************************************************************************)
(* The feed cache: FeedService's four signals as one record.               *)
(***************************************************************************)
EmptyMap == [k \in {} |-> Null]

\* Mutant of MapSet: the new map is not copied from the old one.
MapSetFresh(map, k, v) == [x \in {k} |-> v]

MapSet(map, k, v) == [x \in DOMAIN map \cup {k} |-> IF x = k THEN v ELSE map[x]]

MapDelete(map, k) == [x \in DOMAIN map \ {k} |-> map[x]]

EmptyCache ==
  [latest |-> EmptyMap, history |-> EmptyMap, directions |-> EmptyMap, lastUpdate |-> Null]

\* FeedService.normalizeFeed
normalizeFeed(feed, timestamp) ==
  [buyPrice  |-> PriceValue(parsePrice(feed.BuyPrice)),
   sellPrice |-> PriceValue(parsePrice(feed.SellPrice)),
   stockId   |-> feed.StockId,
   timestamp |-> timestamp]

\* Mutant of getDirection: the comparisons made inclusive.
getDirectionInclusive(current, previous) ==
  IF current = Null \/ previous = Null THEN "neutral"
  ELSE IF ~Less(current[1], previous[1]) THEN "up"
  ELSE IF ~Less(previous[1], current[1]) THEN "down"
  ELSE "neutral"

\* Mutant of getDirection: up and down exchanged.
getDirectionSwapped(current, previous) ==
  IF current = Null \/ previous = Null THEN "neutral"
  ELSE IF Less(previous[1], current[1]) THEN "down"
  ELSE IF Less(current[1], previous[1]) THEN "up"
  ELSE "neutral"

\* FeedService.getDirection; previous is Null also when there is no previous
\* feed (previous?.buyPrice is undefined).
getDirection(current, previous) ==
  IF current = Null \/ previous = Null THEN "neutral"
  ELSE IF Less(previous[1], current[1]) THEN "up"
  ELSE IF Less(current[1], previous[1]) THEN "down"
  ELSE "neutral"

\* FeedService.calculateRateDirections; previous is <<>> (undefined) or <<feed>>
calculateRateDirections(current, previous) ==
  [buyRateDirection  |-> getDirection(current.buyPrice,
                            IF previous = <<>> THEN Null ELSE previous[1].buyPrice),
   sellRateDirection |-> getDirection(current.sellPrice,
                            IF previous = <<>> THEN Null ELSE previous[1].sellPrice)]

\* Mutant of UpdatedHistory: the cap is never applied.
UpdatedHistoryNoPop(history, normalized) == <<normalized>> \o history

\* Mutant of UpdatedHistory: shift() in place of pop().
UpdatedHistoryShift(history, normalized) ==
  LET updatedHistory == <<normalized>> \o history
  IN  IF Len(updatedHistory) > MAX_FEED_HISTORY
      THEN Tail(updatedHistory)
      ELSE updatedHistory

\* Mutant of UpdatedHistory: the reading is appended, the head dropped over
\* the cap.
UpdatedHistoryAppend(history, normalized) ==
  LET updatedHistory == history \o <<normalized>>
  IN  IF Len(updatedHistory) > MAX_FEED_HISTORY
      THEN Tail(updatedHistory)
      ELSE updatedHistory

\* Mutant of UpdatedHistory: the new reading replaces the history.
UpdatedHistoryLatestOnly(history, normalized) == <<normalized>>

\* The history update of processFeeds: prepend, then pop once when over the cap.
UpdatedHistory(history, normalized) ==
  LET updatedHistory == <<normalized>> \o history
  IN  IF Len(updatedHistory) > MAX_FEED_HISTORY
      THEN SubSeq(updatedHistory, 1, Len(updatedHistory) - 1)
      ELSE updatedHistory

\* Mutant of ProcessFeed: the directions are calculated after the latest
\* feed was replaced.
ProcessFeedLatestFirst(cache, feed, timestamp, withDirections) ==
  LET Store(normalized) ==
        LET id      == feed.StockId
            history == IF id \in DOMAIN cache.history THEN cache.history[id] ELSE <<>>
        IN  [latest     |-> MapSet(cache.latest, id, normalized),
             history    |-> MapSet(cache.history, id, UpdatedHistory(history, normalized)),
             directions |-> IF withDirections
                            THEN MapSet(cache.directions, id,
                                        calculateRateDirections(normalized, <<normalized>>))
                            ELSE cache.directions,
             lastUpdate |-> cache.lastUpdate]
  IN  Store(normalizeFeed(feed, timestamp))

\* One iteration of the forEach of processFeeds: the statements after the
\* first, which gave normalized, are Store.
ProcessFeed(cache, feed, timestamp, withDirections) ==
  LET Store(normalized) ==
        LET id           == feed.StockId
            previousFeed == IF id \in DOMAIN cache.latest
                            THEN <<cache.latest[id]>> ELSE <<>>
            history      == IF id \in DOMAIN cache.history THEN cache.history[id] ELSE <<>>
        IN  [latest     |-> MapSet(cache.latest, id, normalized),
             history    |-> MapSet(cache.history, id, UpdatedHistory(history, normalized)),
             directions |-> IF withDirections
                            THEN MapSet(cache.directions, id,
                                        calculateRateDirections(normalized, previousFeed))
                            ELSE cache.directions,
             lastUpdate |-> cache.lastUpdate]
  IN  Store(normalizeFeed(feed, timestamp))

\* Mutant of ForEachFeed: only the first feed of the batch is applied.
ForEachFeedFirstOnly(cache, feeds, timestamp, withDirections) ==
  IF feeds = <<>> THEN cache
  ELSE ProcessFeed(cache, Head(feeds), timestamp, withDirections)

RECURSIVE ForEachFeed(_, _, _, _)
ForEachFeed(cache, feeds, timestamp, withDirections) ==
  IF feeds = <<>> THEN cache
  ELSE ForEachFeed(ProcessFeed(cache, Head(feeds), timestamp, withDirections),
                   Tail(feeds), timestamp, withDirections)

\* Mutant of processFeeds: a response without feeds is ignored.
processFeedsSkippingEmpty(cache, response) ==
  LET timestamp == NewDate(response.LastUpdate)
  IN  IF response.Feeds = <<>> THEN cache
      ELSE ForEachFeed([cache EXCEPT !.lastUpdate = Some(timestamp)],
                       response.Feeds, timestamp, TRUE)

\* FeedService.processFeeds of the service that keeps rate directions.
processFeeds(cache, response) ==
  LET timestamp == NewDate(response.LastUpdate)
  IN  ForEachFeed([cache EXCEPT !.lastUpdate = Some(timestamp)],
                  response.Feeds, timestamp, TRUE)

\* FeedService.processFeeds of the service without rate directions.
processFeedsNoDirections(cache, response) ==
  LET timestamp == NewDate(response.LastUpdate)
  IN  ForEachFeed([cache EXCEPT !.lastUpdate = Some(timestamp)],
                  response.Feeds, timestamp, FALSE)

(***************************************************************************)
(* The upstream HTTP boundary: what a feeds request can be answered with.  *)
(***************************************************************************)
\* Raw quotes as the API reports them: numbers and strings, a decimal string
\* and the "-Infinity" sentinel among them.
RawQuotes ==
  << [BuyPrice  |-> NumberValue(Dyadic(1, 0)),
      SellPrice |-> StringValue(<<"0", ".", "5">>)],
     [BuyPrice  |-> StringValue(<<"2">>),
      SellPrice |-> NumberValue(Dyadic(1, 0))],
     [BuyPrice  |-> StringValue(<<"-">> \o InfinityLiteral),
      SellPrice |-> NumberValue(Dyadic(1, 0))] >>

\* The server's quote of stock id at time t: every stock walks through
\* RawQuotes, each from its own starting point.
ServerQuote(id, t) == RawQuotes[((t + id) % Len(RawQuotes)) + 1]

RawFeed(id, quote) ==
  [StockId |-> id, BuyPrice |-> quote.BuyPrice, SellPrice |-> quote.SellPrice]

\* The Feeds arrays for a request of ids served at time t: one feed per
\* requested id, in the order requested, or no feed at all.
FeedsFor(ids, t) ==
  { [k \in 1..Len(ids) |-> RawFeed(ids[k], ServerQuote(ids[k], t))], <<>> }

\* The responses to a request: the server serves it, and stamps LastUpdate,
\* when the request reaches it, at time issuedAt; the answer may arrive any
\* time later.
Responses(ids, issuedAt) ==
  { [Feeds |-> feeds, LastUpdate |-> IsoString(issuedAt * POLLING_INTERVAL_MS)] :
      feeds \in FeedsFor(ids, issuedAt) }

(***************************************************************************)
(* State.                                                                  *)
(***************************************************************************)
VARIABLES
  variant,               \* which FeedService is built: "modes" or "flag"
  latestFeedsByStock,    \* _latestFeedsByStock: Map<number, NormalizedFeed>
  feedHistoryByStock,    \* _feedHistoryByStock: Map<number, NormalizedFeed[]>
  rateDirectionsByStock, \* _rateDirectionsByStock: Map<number, RateDirections>
  lastUpdate,            \* _lastUpdate: Date | null
  pollingMode,           \* pollingMode: <<>> (null), <<"all">> or <<"single">>
  isPolling,             \* isPolling flag of the "flag" service
  timers,                \* live interval(...) subscriptions; each one is an
                         \* observer of stopPolling$ through takeUntil
  inflight,              \* HTTP requests dispatched and not yet answered
  clock,                 \* elapsed polling intervals
  issued,                \* requests dispatched so far
  roundTrip,             \* observer: "all" once poll-all has started, "one" after
                         \* the switch to poll-one that follows, "back" from the
                         \* return to poll-all until the next batch is applied
  snapshot,              \* observer: feedHistoryByStock when poll-all was left
                         \* for poll-one
  received,              \* observer of the normalizer's specification: the raw
                         \* response handed to processFeeds, <<>> before it
  ingested,              \* observer: per stock, the readings processFeeds has
                         \* stored since the stock's history was last cleared,
                         \* in the order they were stored
  screen,                \* the routed component alive: kind "none", "list" or
                         \* "detail", the route's id, and its number among the
                         \* components created
  stockRequests,         \* getStocks() requests dispatched and not yet answered
  stocks,                \* StockService._stocks
  stocksMap,             \* StockService._stocksMap
  fetched,               \* observer: how many getStocks() answers in a row have
                         \* carried the list that is cached now
  timerOwner,            \* observer: the number of the component on whose
                         \* behalf polling was started last
  calc                   \* observer: the value of the computed view read last,
                         \* <<>> before any is read

feedVars ==
  <<variant, latestFeedsByStock, feedHistoryByStock, rateDirectionsByStock,
    lastUpdate, pollingMode, isPolling, timers, inflight, clock, issued,
    roundTrip, snapshot, received, ingested>>

screenVars == <<screen, stockRequests, stocks, stocksMap, fetched, timerOwner>>

\* Everything but the feed service's state.
restVars == <<screenVars, calc>>

vars == <<feedVars, restVars>>

cacheVars ==
  <<latestFeedsByStock, feedHistoryByStock, rateDirectionsByStock, lastUpdate>>

Cache ==
  [latest     |-> latestFeedsByStock,
   history    |-> feedHistoryByStock,
   directions |-> rateDirectionsByStock,
   lastUpdate |-> lastUpdate]

SetCache(c) ==
  /\ latestFeedsByStock' = c.latest
  /\ feedHistoryByStock' = c.history
  /\ rateDirectionsByStock' = c.directions
  /\ lastUpdate' = c.lastUpdate

\* The warm start is the cache after n all-stock batches, the j-th of them
\* served at time j - MAX_FEED_HISTORY with the quote WarmQuote(j).
WarmQuote(j) ==
  [BuyPrice  |-> NumberValue(Dyadic(2 + (j % 2), -1)),
   SellPrice |-> NumberValue(Dyadic(1, 0))]

WarmFeed(id, j) ==
  normalizeFeed(RawFeed(id, WarmQuote(j)),
                NewDate(IsoString((j - MAX_FEED_HISTORY) * POLLING_INTERVAL_MS)))

\* processFeeds applied n times from the empty cache, in closed form: the
\* newest batch is at position 1 of every history.
WarmCache(n, withDirections) ==
  LET Of(histories) ==
        [latest     |-> [id \in StockIds |-> histories[id][1]],
         history    |-> histories,
         directions |-> IF withDirections
                        THEN [id \in StockIds |->
                                calculateRateDirections(
                                  histories[id][1],
                                  IF n = 1 THEN <<>> ELSE <<histories[id][2]>>)]
                        ELSE EmptyMap,
         lastUpdate |-> Some((n - MAX_FEED_HISTORY) * POLLING_INTERVAL_MS)]
  IN  IF n = 0 THEN EmptyCache
      ELSE Of([id \in StockIds |-> [k \in 1..n |-> WarmFeed(id, n - k + 1)]])

\* The readings stored for stock id by the feeds of one response, appended
\* to log in the order of the forEach of processFeeds.
RECURSIVE Logged(_, _, _)
Logged(log, feeds, timestamp) ==
  IF feeds = <<>> THEN log
  ELSE Logged([log EXCEPT ![Head(feeds).StockId] =
                 Append(@, normalizeFeed(Head(feeds), timestamp))],
              Tail(feeds), timestamp)

NoScreen == [kind |-> "none", id |-> 0, no |-> 0]

WarmLevels == {0, MAX_FEED_HISTORY - WarmGap}

\* The four signals hold the cache c.
CacheIs(c) ==
  /\ latestFeedsByStock = c.latest
  /\ feedHistoryByStock = c.history
  /\ rateDirectionsByStock = c.directions
  /\ lastUpdate = c.lastUpdate

\* FeedService.getFeedHistoryForStock
HistoryOf(id) ==
  IF id \in DOMAIN feedHistoryByStock THEN feedHistoryByStock[id] ELSE <<>>

\* FeedService.getPollingMode
getPollingMode == pollingMode

\* FeedService.isPollingActive
isPollingActive == pollingMode # Null

\* FeedService.getLatestFeedForStock
getLatestFeedForStock(id) ==
  IF id \in DOMAIN latestFeedsByStock THEN Some(latestFeedsByStock[id]) ELSE Null

Init ==
  /\ variant \in {"modes", "flag"}
  /\ \E n \in WarmLevels : CacheIs(WarmCache(n, variant = "modes"))
  /\ pollingMode = Null
  /\ isPolling = FALSE
  /\ timers = {}
  /\ inflight = {}
  /\ clock = 0
  /\ issued = 0
  /\ roundTrip = "none"
  /\ snapshot = EmptyMap
  /\ received = Null
  /\ ingested = [id \in StockIds |-> [k \in 1..Len(HistoryOf(id)) |->
                    HistoryOf(id)[Len(HistoryOf(id)) - k + 1]]]
  /\ screen = NoScreen
  /\ stockRequests = {}
  /\ stocks = <<>>
  /\ stocksMap = EmptyMap
  /\ fetched = 0
  /\ timerOwner = 0
  /\ calc = Null

(***************************************************************************)
(* The RxJS pipelines.                                                     *)
(***************************************************************************)
\* An id for a new interval subscription.
FreshTimer(ts) == CHOOSE i \in 1..(MaxTimers + 1) : \A t \in ts : t.id # i

\* The n-th request, dispatched at time at. tid is the interval subscription
\* whose switchMap holds it as its inner subscription (0: none, or that
\* source has completed).
Request(n, ids, src, tid, at) ==
  [n |-> n, ids |-> ids, src |-> src, tid |-> tid, at |-> at]

\* Mutant of StoppedTimers: the interval pipelines do not observe the subject.
StoppedTimersNoNext(ts) == ts

\* stopPolling$.next(): takeUntil completes every interval subscription that
\* observes the subject.
StoppedTimers(ts) == {}

\* Mutant of Detach: takeUntil placed after switchMap, so that a stop also
\* unsubscribes the inner request of a stopped pipeline.
DetachCancelling(fs, ts) ==
  { f \in fs : f.tid = 0 \/ \E t \in ts : t.id = f.tid }

\* The inner request of a completed interval pipeline stays subscribed
\* (takeUntil sits before switchMap, which waits for its inner observable),
\* so it is kept in flight, no longer owned by a live timer.
Detach(fs, ts) ==
  { IF \E t \in ts : t.id = f.tid THEN f ELSE [f EXCEPT !.tid = 0] : f \in fs }

\* Mutant of Subscribe: the interval is subscribed without the initial fetch.
SubscribeNoInitial(ids, ts) ==
  /\ issued < MaxFetches
  /\ Cardinality(ts) < MaxTimers
  /\ timers' = ts \cup {[id |-> FreshTimer(ts), ids |-> ids]}
  /\ inflight' = Detach(inflight, ts)
  /\ issued' = issued

\* The initial fetch and the interval pipeline of a start operation, with ts
\* the interval subscriptions that survived the stop before it.
Subscribe(ids, ts) ==
  /\ issued < MaxFetches
  /\ Cardinality(ts) < MaxTimers
  /\ timers' = ts \cup {[id |-> FreshTimer(ts), ids |-> ids]}
  /\ inflight' = Detach(inflight, ts)
                   \cup {Request(issued + 1, ids, "initial", 0, clock)}
  /\ issued' = issued + 1

(***************************************************************************)
(* FeedService with polling modes (startPollingAllStocks and               *)
(* switchToSingleStockPolling).                                            *)
(***************************************************************************)
StockIdLists == {<<>>, AllStockIds}

\* Mutant of startPollingAllStocks: the check of the empty list is missing.
startPollingAllStocksUnguarded(stockIds) ==
  /\ variant = "modes"
  /\ Subscribe(stockIds, StoppedTimers(timers))
  /\ pollingMode' = Some("all")
  /\ roundTrip' = IF roundTrip = "one" THEN "back" ELSE "all"
  /\ UNCHANGED <<variant, received, ingested, cacheVars, isPolling, clock, snapshot>>

startPollingAllStocks(stockIds) ==
  /\ variant = "modes"
  /\ IF Len(stockIds) = 0
     THEN UNCHANGED <<pollingMode, timers, inflight, issued, roundTrip>>
     ELSE /\ Subscribe(stockIds, StoppedTimers(timers))
          /\ pollingMode' = Some("all")
          /\ roundTrip' = IF roundTrip = "one" THEN "back" ELSE "all"
  /\ UNCHANGED <<variant, received, ingested, cacheVars, isPolling, clock, snapshot>>

\* Mutant of switchToSingleStockPolling: the switch starts the stock's history
\* afresh.
switchToSingleStockPollingClearing(stockId) ==
  /\ variant = "modes"
  /\ Subscribe(<<stockId>>, StoppedTimers(timers))
  /\ pollingMode' = Some("single")
  /\ feedHistoryByStock' = MapDelete(feedHistoryByStock, stockId)
  /\ IF roundTrip \in {"all", "back"}
     THEN roundTrip' = "one" /\ snapshot' = feedHistoryByStock
     ELSE UNCHANGED <<roundTrip, snapshot>>
  /\ UNCHANGED <<variant, received, ingested, latestFeedsByStock, rateDirectionsByStock, lastUpdate,
                 isPolling, clock>>

switchToSingleStockPolling(stockId) ==
  /\ variant = "modes"
  /\ Subscribe(<<stockId>>, StoppedTimers(timers))
  /\ pollingMode' = Some("single")
  /\ IF roundTrip \in {"all", "back"}
     THEN roundTrip' = "one" /\ snapshot' = feedHistoryByStock
     ELSE UNCHANGED <<roundTrip, snapshot>>
  /\ UNCHANGED <<variant, received, ingested, cacheVars, isPolling, clock>>

\* Mutant of stopPolling: the mode and the flag are reset without
\* stopPolling$.next().
stopPollingNoNext ==
  /\ pollingMode' = Null
  /\ isPolling' = FALSE
  /\ UNCHANGED <<variant, received, ingested, cacheVars, timers, inflight, clock, issued, roundTrip,
                 snapshot>>

\* Mutant of stopPolling: stopping also drops the cached feeds.
stopPollingClearing ==
  /\ timers' = StoppedTimers(timers)
  /\ inflight' = Detach(inflight, StoppedTimers(timers))
  /\ pollingMode' = Null
  /\ isPolling' = FALSE
  /\ feedHistoryByStock' = EmptyMap
  /\ latestFeedsByStock' = EmptyMap
  /\ UNCHANGED <<variant, received, ingested, rateDirectionsByStock, lastUpdate, clock, issued,
                 roundTrip, snapshot>>

\* stopPolling of either service: stopPolling$.next(), then the mode or the
\* flag is reset (the "modes" service also replaces the subject, which has
\* no observer left).
stopPolling ==
  /\ timers' = StoppedTimers(timers)
  /\ inflight' = Detach(inflight, StoppedTimers(timers))
  /\ pollingMode' = Null
  /\ isPolling' = FALSE
  /\ UNCHANGED <<variant, received, ingested, cacheVars, clock, issued, roundTrip, snapshot>>

\* Mutant of clearAllFeedHistory: the rate directions are not reset.
clearAllFeedHistoryKeepingDirections ==
  /\ variant = "modes"
  /\ feedHistoryByStock' = EmptyMap
  /\ latestFeedsByStock' = EmptyMap
  /\ roundTrip' = IF roundTrip \in {"all", "back"} THEN "all" ELSE "none"
  /\ snapshot' = EmptyMap
  /\ ingested' = [id \in StockIds |-> <<>>]
  /\ UNCHANGED <<variant, received, rateDirectionsByStock, lastUpdate, pollingMode,
                 isPolling, timers, inflight, clock, issued>>

\* Mutant of clearAllFeedHistory: the latest feeds are not reset.
clearAllFeedHistoryKeepingLatest ==
  /\ variant = "modes"
  /\ feedHistoryByStock' = EmptyMap
  /\ rateDirectionsByStock' = EmptyMap
  /\ roundTrip' = IF roundTrip \in {"all", "back"} THEN "all" ELSE "none"
  /\ snapshot' = EmptyMap
  /\ ingested' = [id \in StockIds |-> <<>>]
  /\ UNCHANGED <<variant, received, latestFeedsByStock, lastUpdate, pollingMode,
                 isPolling, timers, inflight, clock, issued>>

\* Mutant of clearAllFeedHistory: the reset also stops the polling.
clearAllFeedHistoryStopping ==
  /\ variant = "modes"
  /\ feedHistoryByStock' = EmptyMap
  /\ latestFeedsByStock' = EmptyMap
  /\ rateDirectionsByStock' = EmptyMap
  /\ roundTrip' = IF roundTrip \in {"all", "back"} THEN "all" ELSE "none"
  /\ snapshot' = EmptyMap
  /\ ingested' = [id \in StockIds |-> <<>>]
  /\ timers' = StoppedTimers(timers)
  /\ pollingMode' = Null
  /\ UNCHANGED <<variant, received, lastUpdate, isPolling, inflight, clock, issued>>

\* FeedService.clearAllFeedHistory
clearAllFeedHistory ==
  /\ variant = "modes"
  /\ feedHistoryByStock' = EmptyMap
  /\ latestFeedsByStock' = EmptyMap
  /\ rateDirectionsByStock' = EmptyMap
  /\ roundTrip' = IF roundTrip \in {"all", "back"} THEN "all" ELSE "none"
  /\ snapshot' = EmptyMap
  /\ ingested' = [id \in StockIds |-> <<>>]
  /\ UNCHANGED <<variant, received, lastUpdate, pollingMode, isPolling, timers, inflight,
                 clock, issued>>

(***************************************************************************)
(* FeedService with the isPolling flag (startPollingAllFeeds,              *)
(* startPollingStockFeeds, clearFeedHistory).                              *)
(***************************************************************************)
startPollingAllFeeds ==
  /\ variant = "flag"
  /\ IF isPolling
     THEN UNCHANGED <<isPolling, timers, inflight, issued>>
     ELSE /\ isPolling' = TRUE
          /\ Subscribe(AllStockIds, timers)
  /\ UNCHANGED <<variant, received, ingested, cacheVars, pollingMode, clock, roundTrip, snapshot>>

startPollingStockFeeds(stockId) ==
  /\ variant = "flag"
  /\ IF isPolling
     THEN UNCHANGED <<isPolling, timers, inflight, issued>>
     ELSE /\ isPolling' = TRUE
          /\ Subscribe(<<stockId>>, timers)
  /\ UNCHANGED <<variant, received, ingested, cacheVars, pollingMode, clock, roundTrip, snapshot>>

\* Mutant of clearFeedHistory: the latest feed of the stock is deleted too.
clearFeedHistoryAndLatest(stockId) ==
  /\ variant = "flag"
  /\ feedHistoryByStock' = MapDelete(feedHistoryByStock, stockId)
  /\ latestFeedsByStock' = MapDelete(latestFeedsByStock, stockId)
  /\ ingested' = [ingested EXCEPT ![stockId] = <<>>]
  /\ UNCHANGED <<variant, received, rateDirectionsByStock, lastUpdate,
                 pollingMode, isPolling, timers, inflight, clock, issued,
                 roundTrip, snapshot>>

clearFeedHistory(stockId) ==
  /\ variant = "flag"
  /\ feedHistoryByStock' = MapDelete(feedHistoryByStock, stockId)
  /\ ingested' = [ingested EXCEPT ![stockId] = <<>>]
  /\ UNCHANGED <<variant, received, latestFeedsByStock, rateDirectionsByStock, lastUpdate,
                 pollingMode, isPolling, timers, inflight, clock, issued,
                 roundTrip, snapshot>>

(***************************************************************************)
(* The steps of the subscribed pipelines.                                  *)
(***************************************************************************)
\* Mutant of SwitchMapInner: mergeMap in place of switchMap.
MergeMapInner(fs, t) == fs

\* What switchMap does with its inner request when the source emits again:
\* it unsubscribes, which aborts the HTTP request.
SwitchMapInner(fs, t) == { f \in fs : f.tid # t.id }

\* interval(POLLING_INTERVAL_MS) emits on the subscription t.
Tick(t) ==
  /\ issued < MaxFetches
  /\ clock' = clock + 1
  /\ inflight' = SwitchMapInner(inflight, t)
                   \cup {Request(issued + 1, t.ids, "timer", t.id, clock + 1)}
  /\ issued' = issued + 1
  /\ UNCHANGED <<variant, received, ingested, cacheVars, pollingMode, isPolling, timers,
                 roundTrip, snapshot>>

\* The request f is answered: tap(response => processFeeds(response)).
FetchSuccess(f, response) ==
  /\ f \in inflight
  /\ inflight' = inflight \ {f}
  /\ roundTrip' = IF roundTrip = "back" THEN "all" ELSE roundTrip
  /\ UNCHANGED <<variant, received, pollingMode, isPolling, timers, clock, issued, snapshot>>
  /\ ingested' = Logged(ingested, response.Feeds, NewDate(response.LastUpdate))
  /\ SetCache(IF variant = "modes"
              THEN processFeeds(Cache, response)
              ELSE processFeedsNoDirections(Cache, response))

\* The interval subscriptions left after the request f has failed: the error
\* of the inner observable of switchMap is the error of the whole pipeline
\* (no catchError), which unsubscribes from interval. The initial fetch is a
\* subscription of its own.
TimersAfterError(ts, f) ==
  IF f.src = "timer" THEN { t \in ts : t.id # f.tid } ELSE ts

\* The request f fails.
FetchError(f) ==
  /\ f \in inflight
  /\ timers' = TimersAfterError(timers, f)
  /\ inflight' = inflight \ {f}
  /\ UNCHANGED <<variant, received, ingested, cacheVars, pollingMode, isPolling, clock, issued,
                 roundTrip, snapshot>>

\* The service driven directly: no component is alive.
Next ==
  \/ \E stockIds \in StockIdLists :
       startPollingAllStocks(stockIds) /\ UNCHANGED restVars
  \/ \E stockId \in DetailStockIds :
       switchToSingleStockPolling(stockId) /\ UNCHANGED restVars
  \/ stopPolling /\ UNCHANGED restVars
  \/ clearAllFeedHistory /\ UNCHANGED restVars
  \/ startPollingAllFeeds /\ UNCHANGED restVars
  \/ \E stockId \in DetailStockIds :
       startPollingStockFeeds(stockId) /\ UNCHANGED restVars
  \/ \E stockId \in StockIds : clearFeedHistory(stockId) /\ UNCHANGED restVars
  \/ \E t \in timers : Tick(t) /\ UNCHANGED restVars
  \/ \E f \in inflight :
       \E response \in Responses(f.ids, f.at) :
         FetchSuccess(f, response) /\ UNCHANGED restVars
  \/ \E f \in inflight : FetchError(f) /\ UNCHANGED restVars

Spec == Init /\ [][Next]_vars

(***************************************************************************)
(* The normalizer on raw input: one response of one feed, whose prices are *)
(* drawn from the raw values the API can send, is handed to processFeeds   *)
(* of the service as constructed.                                          *)
(***************************************************************************)
RawAlphabet == {"0", "1", ".", "-", "e", " ", "\t", "x"}

\* Every string over RawAlphabet up to MaxRawLen characters, the Infinity
\* literals, and decimal literals of three fraction digits, of a no-break
\* space before the digits, and of exponents past the range of a double.
RawStrings ==
  UNION { [1..n -> RawAlphabet] : n \in 0..MaxRawLen }
    \cup {InfinityLiteral, <<"-">> \o InfinityLiteral, <<"+">> \o InfinityLiteral,
          <<"0", ".", "0", "1", "9">>, <<"U+00A0", "1">>,
          <<"1", "e", "9", "9", "9">>, <<"-", "1", "e", "9", "9", "9">>,
          <<"1", "e", "-", "9", "9", "9">>,
          <<"3", "e", "-", "3", "2", "4">>, <<"7", "e", "-", "3", "2", "4">>,
          <<"2", "e", "-", "3", "2", "4">>,
          <<"0", ".", "1", "0", "0", "0", "0", "0", "0", "0", "0", "0", "0", "0", "0",
            "0", "0", "0", "1">>,
          <<"9", "0", "0", "7", "1", "9", "9", "2", "5", "4", "7", "4", "0", "9", "9", "3">>}

RawNumbers ==
  {Dyadic(-3, -1), Finite(Zero), Finite(SignedZero(TRUE)), Dyadic(601, -2), NaN,
   PosInfinity, NegInfinity}

RawPrices ==
  { NumberValue(x) : x \in RawNumbers } \cup { StringValue(str) : str \in RawStrings }

\* One raw value of every kind for the other side of the quote.
RawSellPrices ==
  { NumberValue(Literal(1503, -1)), NumberValue(NaN), NumberValue(NegInfinity),
    StringValue(<<"1", ".", "1">>), StringValue(<<"-">> \o InfinityLiteral),
    StringValue(<<"x">>) }

RawResponses ==
  { [Feeds |-> <<RawFeed(id, [BuyPrice |-> buy, SellPrice |-> sell])>>,
     LastUpdate |-> IsoString(0)] :
      id \in StockIds, buy \in RawPrices, sell \in RawSellPrices }

ParseInit == Init /\ feedHistoryByStock = EmptyMap

\* tap((response) => this.processFeeds(response))
ReceiveRaw(response) ==
  /\ received' = Some(response)
  /\ ingested' = Logged(ingested, response.Feeds, NewDate(response.LastUpdate))
  /\ SetCache(IF variant = "modes"
              THEN processFeeds(Cache, response)
              ELSE processFeedsNoDirections(Cache, response))
  /\ UNCHANGED <<variant, pollingMode, isPolling, timers, inflight, clock, issued,
                 roundTrip, snapshot>>

\* The service receives one response.
ParseNext ==
  /\ received = Null
  /\ \E response \in RawResponses : ReceiveRaw(response)
  /\ UNCHANGED restVars

SpecParse == ParseInit /\ [][ParseNext]_vars

(***************************************************************************)
(* The two routed components (StocksListComponent at /stocks,              *)
(* StockDetailsComponent at /stock/:id) driving StockService and the       *)
(* FeedService with polling modes. A navigation destroys the component     *)
(* alive, which runs its onDestroy callback, and creates the other one,    *)
(* which runs its ngOnInit, in one step.                                   *)
(***************************************************************************)
ScreensInit == Init /\ variant = "modes" /\ feedHistoryByStock = EmptyMap

\* The stocks the API lists.
ServerStocks ==
  << [Id |-> 1, Name |-> "Google(Alphabet)", Symbol |-> "GOOG", PrecisionDigit |-> 2],
     [Id |-> 2, Name |-> "Apple", Symbol |-> "AAPL", PrecisionDigit |-> 3] >>

\* What getStocks() can be answered with.
StockLists == {<<>>, ServerStocks}

\* stocks.map((stock) => stock.Id)
StockIdsOf(list) == [k \in 1..Len(list) |-> list[k].Id]

\* Mutant of StocksMapOf: only the first stock is entered.
StocksMapOfFirst(list) ==
  IF list = <<>> THEN EmptyMap ELSE MapSet(EmptyMap, list[1].Id, list[1])

\* The map built by the tap of fetchStocks: a new Map, then map.set(stock.Id,
\* stock) for every stock in order.
RECURSIVE StocksMapFrom(_, _)
StocksMapFrom(map, list) ==
  IF list = <<>> THEN map
  ELSE StocksMapFrom(MapSet(map, Head(list).Id, Head(list)), Tail(list))

StocksMapOf(list) == StocksMapFrom(EmptyMap, list)

\* StockService.getStockById
getStockById(id) == IF id \in DOMAIN stocksMap THEN Some(stocksMap[id]) ELSE Null

\* StockService.fetchStocks() subscribed by the component number owner;
\* start tells whether the subscriber starts polling (the list screen's does).
StockRequest(owner, start) == [owner |-> owner, start |-> start]

\* Navigation to /stocks. The detail component alive is destroyed (onDestroy:
\* stopPolling, which changes nothing when no component was alive); the list
\* component's ngOnInit subscribes fetchStocks().
OpenList ==
  /\ screen.kind # "list"
  /\ screen.no < MaxScreens
  /\ stopPolling
  /\ screen' = [kind |-> "list", id |-> 0, no |-> screen.no + 1]
  /\ stockRequests' = stockRequests \cup {StockRequest(screen.no + 1, TRUE)}
  /\ UNCHANGED <<stocks, stocksMap, fetched, timerOwner, calc>>

\* Navigation to /stock/:id. The list component alive is destroyed (onDestroy:
\* stopPolling, which the stopPolling() inside switchToSingleStockPolling
\* repeats); the detail component's ngOnInit fetches the stocks when none is
\* loaded and switches to single-stock polling.
OpenDetail(stockId) ==
  /\ screen.kind # "detail"
  /\ screen.no < MaxScreens
  /\ stockRequests' = IF Len(stocks) = 0
                      THEN stockRequests \cup {StockRequest(screen.no + 1, FALSE)}
                      ELSE stockRequests
  /\ switchToSingleStockPolling(stockId)
  /\ screen' = [kind |-> "detail", id |-> stockId, no |-> screen.no + 1]
  /\ timerOwner' = screen.no + 1
  /\ UNCHANGED <<stocks, stocksMap, fetched, calc>>

\* Navigation to the detail component with no id parameter in the route:
\* id is null, so ngOnInit neither fetches the stocks nor starts polling. The
\* screen's id 0 stands for the null stockId signal.
OpenDetailNoId ==
  /\ screen.kind # "detail"
  /\ screen.no < MaxScreens
  /\ stopPolling
  /\ screen' = [kind |-> "detail", id |-> 0, no |-> screen.no + 1]
  /\ UNCHANGED <<stockRequests, stocks, stocksMap, fetched, timerOwner, calc>>

\* StockDetailsComponent.stockId
DetailStockId ==
  IF screen.kind = "detail" /\ screen.id # 0 THEN Some(screen.id) ELSE Null

\* StockDetailsComponent.stock
DetailStock ==
  IF DetailStockId = Null THEN Null ELSE getStockById(DetailStockId[1])

\* Mutant of DetailPrecision: the fallback is 0.
DetailPrecisionZero ==
  IF DetailStock = Null THEN 0 ELSE DetailStock[1].PrecisionDigit

\* StockDetailsComponent.precision: stock()?.PrecisionDigit ?? 2
DetailPrecision ==
  IF DetailStock = Null THEN 2 ELSE DetailStock[1].PrecisionDigit

\* StockDetailsComponent.feedHistory
DetailFeedHistory ==
  IF DetailStockId = Null THEN <<>> ELSE HistoryOf(DetailStockId[1])

\* getStocks() is answered with list: the tap of fetchStocks stores it, then
\* the subscriber's callback runs.
StocksLoaded(r, list) ==
  /\ r \in stockRequests
  /\ stockRequests' = stockRequests \ {r}
  /\ stocks' = list
  /\ stocksMap' = StocksMapOf(list)
  /\ fetched' = IF fetched > 0 /\ list = stocks THEN fetched + 1 ELSE 1
  /\ IF r.start
     THEN /\ startPollingAllStocks(StockIdsOf(list))
          /\ timerOwner' = IF Len(list) = 0 THEN timerOwner ELSE r.owner
     ELSE UNCHANGED <<feedVars, timerOwner>>
  /\ UNCHANGED <<screen, calc>>

\* getStocks() fails: neither the tap nor the callback runs.
StocksFailed(r) ==
  /\ r \in stockRequests
  /\ stockRequests' = stockRequests \ {r}
  /\ UNCHANGED <<feedVars, screen, stocks, stocksMap, fetched, timerOwner, calc>>

ScreensNext ==
  \/ OpenList
  \/ \E stockId \in DetailStockIds : OpenDetail(stockId)
  \/ OpenDetailNoId
  \/ \E r \in stockRequests : \E list \in StockLists : StocksLoaded(r, list)
  \/ \E r \in stockRequests : StocksFailed(r)
  \/ \E t \in timers : Tick(t) /\ UNCHANGED restVars
  \/ \E f \in inflight :
       \E response \in Responses(f.ids, f.at) :
         FetchSuccess(f, response) /\ UNCHANGED restVars
  \/ \E f \in inflight : FetchError(f) /\ UNCHANGED restVars

SpecScreens == ScreensInit /\ [][ScreensNext]_vars

(***************************************************************************)
(* The computed views of the two components over the feed cache, and the   *)
(* calculations of utils/feed-calculations they call.                      *)
(***************************************************************************)
\* Mutant of calculateSpread: the operands exchanged.
calculateSpreadSwapped(buyPrice, sellPrice) ==
  IF buyPrice = Null \/ sellPrice = Null THEN Null
  ELSE Some(JsMinus(Finite(sellPrice[1]), Finite(buyPrice[1])))

\* calculateSpread(buyPrice, sellPrice): number | null
calculateSpread(buyPrice, sellPrice) ==
  IF buyPrice = Null \/ sellPrice = Null THEN Null
  ELSE Some(JsMinus(Finite(buyPrice[1]), Finite(sellPrice[1])))

\* Mutant of calculatePercentChange: the change is divided by the current
\* rate.
calculatePercentChangeOfCurrent(currentSellRate, previousSellRate) ==
  IF currentSellRate = Null \/ previousSellRate = Null \/ IsZero(previousSellRate[1])
  THEN Null
  ELSE Some(JsTimes(JsDivide(JsMinus(Finite(currentSellRate[1]),
                                     Finite(previousSellRate[1])),
                             Finite(currentSellRate[1])),
                    Hundred))

\* Mutant of calculatePercentChange: the current rate is not tested for null,
\* and null is 0 as an operand.
calculatePercentChangeCoercing(currentSellRate, previousSellRate) ==
  IF previousSellRate = Null \/ IsZero(previousSellRate[1])
  THEN Null
  ELSE Some(JsTimes(JsDivide(JsMinus(IF currentSellRate = Null THEN Finite(Zero)
                                     ELSE Finite(currentSellRate[1]),
                                     Finite(previousSellRate[1])),
                             Finite(previousSellRate[1])),
                    Hundred))

\* calculatePercentChange(currentSellRate, previousSellRate): number | null
calculatePercentChange(currentSellRate, previousSellRate) ==
  IF currentSellRate = Null \/ previousSellRate = Null \/ IsZero(previousSellRate[1])
  THEN Null
  ELSE Some(JsTimes(JsDivide(JsMinus(Finite(currentSellRate[1]),
                                     Finite(previousSellRate[1])),
                             Finite(previousSellRate[1])),
                    Hundred))

\* Mutant of calculateFeedMetrics: the previous feed is taken from
\* index - 1.
calculateFeedMetricsNewer(feeds) ==
  [index \in 1..Len(feeds) |->
     [feed   |-> feeds[index],
      spread |-> calculateSpread(feeds[index].buyPrice, feeds[index].sellPrice),
      sellRateChangePercent |->
        IF index > 1
        THEN calculatePercentChange(feeds[index].sellPrice, feeds[index - 1].sellPrice)
        ELSE Null]]

\* feeds.map((feed, index) => ...); feeds[index + 1] is undefined past the
\* end of the array.
calculateFeedMetrics(feeds) ==
  [index \in 1..Len(feeds) |->
     [feed   |-> feeds[index],
      spread |-> calculateSpread(feeds[index].buyPrice, feeds[index].sellPrice),
      sellRateChangePercent |->
        IF index + 1 <= Len(feeds)
        THEN calculatePercentChange(feeds[index].sellPrice, feeds[index + 1].sellPrice)
        ELSE Null]]

\* Mutant of calculateDailyBuyRateChange: the change is divided by the
\* newest buy price.
calculateDailyBuyRateChangeOfNewest(feedHistory) ==
  IF Len(feedHistory) < 2 THEN Finite(Zero)
  ELSE LET newest == feedHistory[1]
           oldest == feedHistory[Len(feedHistory)]
       IN  IF \/ oldest.buyPrice = Null
              \/ newest.buyPrice = Null
              \/ IsZero(newest.buyPrice[1])
           THEN Finite(Zero)
           ELSE JsTimes(JsDivide(JsMinus(Finite(newest.buyPrice[1]),
                                         Finite(oldest.buyPrice[1])),
                                 Finite(newest.buyPrice[1])),
                        Hundred)

\* calculateDailyBuyRateChange: the percent change of the buy price between
\* the oldest and the newest entry of the history, 0 with fewer than two
\* entries or with an oldest buy price of null or zero. A null newest buy
\* price is an invalid price, for which StockWithLatestFeed documents 0.
calculateDailyBuyRateChange(feedHistory) ==
  IF Len(feedHistory) < 2 THEN Finite(Zero)
  ELSE LET newest == feedHistory[1]
           oldest == feedHistory[Len(feedHistory)]
       IN  IF \/ oldest.buyPrice = Null
              \/ IsZero(oldest.buyPrice[1])
              \/ newest.buyPrice = Null
           THEN Finite(Zero)
           ELSE JsTimes(JsDivide(JsMinus(Finite(newest.buyPrice[1]),
                                         Finite(oldest.buyPrice[1])),
                                 Finite(oldest.buyPrice[1])),
                        Hundred)

\* StockDetailsComponent.feedHistory and feedsWithCalculations for the
\* route's stock id.
feedsWithCalculations(id) == calculateFeedMetrics(HistoryOf(id))

\* The row stocksWithFeeds builds for one stock.
StockWithLatestFeed(stock) ==
  LET feedHistory == HistoryOf(stock.Id)
  IN  [stock      |-> stock,
       latestFeed |-> IF stock.Id \in DOMAIN latestFeedsByStock
                      THEN Some(latestFeedsByStock[stock.Id])
                      ELSE Null,
       dailyBuyRateChange |-> calculateDailyBuyRateChange(feedHistory)]

\* StocksListComponent.stocksWithFeeds
stocksWithFeeds == [k \in 1..Len(stocks) |-> StockWithLatestFeed(stocks[k])]

\* The prices of the readings the views are computed from.
PriceSamples ==
  {Null, Some(Zero)} \cup { Some(Dyadic(m, -1).val) : m \in {199, 200, 220} }

\* Prices at the two ends of the range of a double: 1e308 and -1e308.
ExtremeSamples == { Some(Literal(m, 308).val) : m \in {1, -1} }

\* Prices whose percent change is decided by the rounding of a step: from 35
\* to 6.291925972018105e+307 the product is past the range of a double
\* though the percentage is not; 0.1 and 0.3, whose difference and quotient
\* are no doubles.
RoundingSamples ==
  { Some(parseFloat(literal).val) :
      literal \in {<<"3", "5">>, <<"0", ".", "1">>, <<"0", ".", "3">>,
                   <<"6", ".", "2", "9", "1", "9", "2", "5", "9", "7", "2", "0", "1", "8",
                     "1", "0", "5", "e", "+", "3", "0", "7">>} }

MetricReadings ==
  { [buyPrice |-> buy, sellPrice |-> sell, stockId |-> 1, timestamp |-> 0] :
      buy \in PriceSamples, sell \in PriceSamples }

ExtremeReadings ==
  { [buyPrice |-> buy, sellPrice |-> sell, stockId |-> 1, timestamp |-> 0] :
      buy \in ExtremeSamples, sell \in ExtremeSamples }

RoundingReadings ==
  { [buyPrice |-> price, sellPrice |-> price, stockId |-> 1, timestamp |-> 0] :
      price \in RoundingSamples }

\* The histories of readings of ordinary prices, those of readings of
\* extreme prices and those of readings of prices that rounding decides.
MetricHistories ==
  UNION { [1..n -> MetricReadings] \cup [1..n -> ExtremeReadings]
            \cup [1..n -> RoundingReadings] : n \in 0..MaxReadings }

\* The services after the stock list was fetched and the readings of some
\* history were stored for stock 1, none for stock 2.
MetricsInit ==
  /\ variant = "modes"
  /\ \E history \in MetricHistories :
       /\ feedHistoryByStock =
            IF history = <<>> THEN EmptyMap ELSE MapSet(EmptyMap, 1, history)
       /\ latestFeedsByStock =
            IF history = <<>> THEN EmptyMap ELSE MapSet(EmptyMap, 1, history[1])
       /\ rateDirectionsByStock =
            IF history = <<>> THEN EmptyMap
            ELSE MapSet(EmptyMap, 1,
                        calculateRateDirections(
                          history[1],
                          IF Len(history) = 1 THEN <<>> ELSE <<history[2]>>))
       /\ lastUpdate = IF history = <<>> THEN Null ELSE Some(history[1].timestamp)
       /\ ingested = [id \in StockIds |->
                        IF id = 1
                        THEN [k \in 1..Len(history) |-> history[Len(history) - k + 1]]
                        ELSE <<>>]
  /\ pollingMode = Null
  /\ isPolling = FALSE
  /\ timers = {}
  /\ inflight = {}
  /\ clock = 0
  /\ issued = 0
  /\ roundTrip = "none"
  /\ snapshot = EmptyMap
  /\ received = Null
  /\ screen = NoScreen
  /\ stockRequests = {}
  /\ stocks = ServerStocks
  /\ stocksMap = StocksMapOf(ServerStocks)
  /\ fetched = 1
  /\ timerOwner = 0
  /\ calc = Null

\* The detail component of stock id reads feedsWithCalculations.
ReadFeedsWithCalculations(id) ==
  /\ calc = Null
  /\ calc' = Some([view |-> "feedsWithCalculations", id |-> id,
                   rows |-> feedsWithCalculations(id)])
  /\ UNCHANGED <<feedVars, screenVars>>

\* The list component reads stocksWithFeeds.
ReadStocksWithFeeds ==
  /\ calc = Null
  /\ calc' = Some([view |-> "stocksWithFeeds", id |-> 0, rows |-> stocksWithFeeds])
  /\ UNCHANGED <<feedVars, screenVars>>

MetricsNext ==
  \/ \E id \in StockIds : ReadFeedsWithCalculations(id)
  \/ ReadStocksWithFeeds

SpecMetrics == MetricsInit /\ [][MetricsNext]_vars

(***************************************************************************)
(* Properties.                                                             *)
(***************************************************************************)
\* The operations of the scheduler that start, switch or stop polling.
SchedulerOp ==
  \/ \E stockIds \in StockIdLists : startPollingAllStocks(stockIds)
  \/ \E stockId \in DetailStockIds : switchToSingleStockPolling(stockId)
  \/ stopPolling
  \/ startPollingAllFeeds
  \/ \E stockId \in DetailStockIds : startPollingStockFeeds(stockId)

\* The scheduler has been stopped and not started since.
Stopped == pollingMode = Null /\ ~isPolling

\* C1: after any sequence of ingests, clears, starts, switches and stops,
\* the feed history of every instrument has at most MAX_FEED_HISTORY entries.
C1_HistoryBounded ==
  \A id \in DOMAIN feedHistoryByStock :
    Len(feedHistoryByStock[id]) <= MAX_FEED_HISTORY

\* A history is full and its oldest warm-start entry has been evicted.
C1_Witness ==
  \E id \in DOMAIN feedHistoryByStock :
    /\ Len(feedHistoryByStock[id]) = MAX_FEED_HISTORY
    /\ feedHistoryByStock[id][MAX_FEED_HISTORY] # WarmFeed(id, 1)
    /\ feedHistoryByStock[id][1].timestamp >= 0

\* C2: when a reading is ingested for an instrument whose history holds
\* MAX_FEED_HISTORY entries, the new reading is at the head, the previous
\* entries but the last follow it in their previous order, and the last
\* (oldest) one is the one entry removed.
C2_EvictsOldest ==
  [][\A f \in inflight : \A response \in Responses(f.ids, f.at) :
       FetchSuccess(f, response) =>
         \A k \in DOMAIN response.Feeds :
           LET id == response.Feeds[k].StockId
           IN  Len(HistoryOf(id)) = MAX_FEED_HISTORY =>
                 /\ Len(feedHistoryByStock'[id]) = MAX_FEED_HISTORY
                 /\ feedHistoryByStock'[id][1] =
                      normalizeFeed(response.Feeds[k], NewDate(response.LastUpdate))
                 /\ \A j \in 1..(MAX_FEED_HISTORY - 1) :
                      feedHistoryByStock'[id][j + 1] = feedHistoryByStock[id][j]]_vars

\* A full history whose head was ingested in this behaviour and whose tail
\* is the second-oldest entry of the warm start.
C2_Witness ==
  \E id \in DOMAIN feedHistoryByStock :
    /\ Len(feedHistoryByStock[id]) = MAX_FEED_HISTORY
    /\ feedHistoryByStock[id][MAX_FEED_HISTORY] = WarmFeed(id, 2)
    /\ feedHistoryByStock[id][1].timestamp >= 0
    /\ feedHistoryByStock[id][2].timestamp >= 0

\* C3: at every reachable state at most one recurring fetch timer is armed.
C3_AtMostOneTimer == Cardinality(timers) <= 1

\* Polling was restarted (single-stock polling replaced poll-all) and one
\* timer is armed.
C3_Witness ==
  /\ Cardinality(timers) = 1
  /\ roundTrip = "one"
  /\ \E t \in timers : Len(t.ids) = 1

\* C4: when a fetch fails, the feed cache is not changed and the recurring
\* timer stays armed.
C4_FailureKeepsTimer ==
  [][\A f \in inflight :
       FetchError(f) => (UNCHANGED cacheVars /\ timers' = timers)]_vars

\* C5: once polling is stopped, no timer-driven fetch is issued until a start
\* or switch operation arms a new timer.
C5_NoFetchAfterStop ==
  [][Stopped => \A f \in inflight' \ inflight : f.src # "timer"]_vars

\* Polling has been stopped after the timer had fired.
C5_Witness == Stopped /\ clock > 0 /\ timers = {}

\* C6: a fetch already dispatched when polling is stopped, started or switched
\* stays in flight (and its answer is applied by FetchSuccess when it comes).
C6_StopKeepsInflight ==
  [][SchedulerOp =>
       \A f \in inflight :
         \E g \in inflight' : g.n = f.n /\ g.ids = f.ids /\ g.at = f.at]_vars

\* Polling is stopped and the last request of the stopped timer is still in
\* flight, next to the initial one.
C6_Witness ==
  /\ Stopped
  /\ \E f \in inflight : f.src = "timer"
  /\ \E f \in inflight : f.src = "initial"

\* C7 as claimed: when a timer fires, every request in flight stays in flight.
C7_BothInFlight ==
  [][\A t \in timers : Tick(t) => \A f \in inflight : f \in inflight']_vars

\* C7 amended: when a timer fires while the request of its previous tick is
\* unanswered, that request is cancelled (it leaves the requests in flight,
\* so its answer is never applied); the requests that are not the timer's
\* own stay in flight, and the timer owns exactly the new request.
C7_SwitchMapCancels ==
  [][\A t \in timers : Tick(t) =>
       /\ \A f \in inflight : f.tid = t.id => \A g \in inflight' : g.n # f.n
       /\ \A f \in inflight : f.tid # t.id => f \in inflight'
       /\ Cardinality({ g \in inflight' : g.tid = t.id }) = 1]_vars

\* From a cold start the timer has fired twice: the initial request and the
\* request of the second tick are in flight, the request of the first tick
\* is gone and nothing has been applied.
C7_Witness ==
  /\ issued = 3
  /\ clock = 2
  /\ { f.n : f \in inflight } = {1, 3}
  /\ lastUpdate = Null
  /\ timers # {}

\* C8: the start, switch and stop operations leave the latest-reading map,
\* the history map and the rate-direction map unchanged; the maps change
\* only when a response is applied or a clear operation is called.
C8_SchedulerFrame ==
  [][/\ SchedulerOp =>
          UNCHANGED <<latestFeedsByStock, feedHistoryByStock, rateDirectionsByStock>>
     /\ <<latestFeedsByStock, feedHistoryByStock, rateDirectionsByStock>>' #
          <<latestFeedsByStock, feedHistoryByStock, rateDirectionsByStock>> =>
          \/ \E f \in inflight : \E response \in Responses(f.ids, f.at) :
               FetchSuccess(f, response)
          \/ clearAllFeedHistory
          \/ \E stockId \in StockIds : clearFeedHistory(stockId)]_vars

\* Polling is stopped with both maps populated by this behaviour's batches.
C8_Witness ==
  /\ Stopped
  /\ issued > 0
  /\ DOMAIN latestFeedsByStock = StockIds
  /\ \A id \in StockIds : latestFeedsByStock[id].timestamp >= 0

\* C9 as claimed: after poll-all -> poll-one -> poll-all every reading that
\* was in a history before the first switch is still in it.
C9_RoundTripKeepsAll ==
  roundTrip = "back" =>
    \A id \in DOMAIN snapshot :
      \A k \in 1..Len(snapshot[id]) :
        \E j \in 1..Len(HistoryOf(id)) : HistoryOf(id)[j] = snapshot[id][k]

\* C9 amended: after poll-all -> poll-one -> poll-all (no clear in between)
\* every history is the readings ingested in between followed by the
\* history as it was before the first switch, cut at MAX_FEED_HISTORY: a
\* reading of before the switch is missing only if the cap evicted it.
C9_RoundTripKeepsUpToCap ==
  roundTrip = "back" =>
    \A id \in DOMAIN snapshot :
      \E k \in 0..Len(HistoryOf(id)) :
        LET kept == Len(HistoryOf(id)) - k
        IN  /\ kept <= Len(snapshot[id])
            /\ SubSeq(HistoryOf(id), k + 1, Len(HistoryOf(id))) =
                 SubSeq(snapshot[id], 1, kept)
            /\ kept < Len(snapshot[id]) => Len(HistoryOf(id)) = MAX_FEED_HISTORY

\* Back in poll-all after a visit to poll-one during which a stock received
\* a reading.
C9_Witness ==
  /\ roundTrip = "back"
  /\ pollingMode = Some("all")
  /\ \E id \in DOMAIN snapshot :
       /\ snapshot[id] # <<>>
       /\ HistoryOf(id) # snapshot[id]

\* The processFeeds of the service that is built.
Ingest(cache, response) ==
  IF variant = "modes" THEN processFeeds(cache, response)
  ELSE processFeedsNoDirections(cache, response)

\* C10 as claimed: applying the batch just applied once more leaves the
\* cache as it is.
C10_IngestIdempotent ==
  [][\A f \in inflight : \A response \in Responses(f.ids, f.at) :
       FetchSuccess(f, response) => Ingest(Cache', response) = Cache']_vars

\* C10 amended: applying the batch just applied once more leaves the
\* latest-reading map and lastUpdate as they are; every instrument of the
\* batch gets the same reading a second time at the head of its history
\* (cut at MAX_FEED_HISTORY) and, where directions are kept, both of its
\* directions become neutral; the other instruments are untouched.
C10_IngestTwice ==
  [][\A f \in inflight : \A response \in Responses(f.ids, f.at) :
       FetchSuccess(f, response) =>
         LET once  == Cache'
             twice == Ingest(Cache', response)
             batch == { response.Feeds[k].StockId : k \in DOMAIN response.Feeds }
         IN  /\ twice.latest = once.latest
             /\ twice.lastUpdate = once.lastUpdate
             /\ DOMAIN twice.history = DOMAIN once.history
             /\ \A id \in DOMAIN once.history :
                  twice.history[id] =
                    IF id \in batch
                    THEN SubSeq(<<once.history[id][1]>> \o once.history[id], 1,
                                IF Len(once.history[id]) < MAX_FEED_HISTORY
                                THEN Len(once.history[id]) + 1
                                ELSE MAX_FEED_HISTORY)
                    ELSE once.history[id]
             /\ DOMAIN twice.directions = DOMAIN once.directions
             /\ \A id \in DOMAIN once.directions :
                  twice.directions[id] =
                    IF id \in batch
                    THEN [buyRateDirection |-> "neutral", sellRateDirection |-> "neutral"]
                    ELSE once.directions[id]]_vars

\* A batch with readings has been applied in this behaviour.
C10_Witness ==
  \E id \in DOMAIN latestFeedsByStock :
    /\ latestFeedsByStock[id].timestamp >= 0
    /\ HistoryOf(id)[1] = latestFeedsByStock[id]

\* C11: a batch is applied whole or not at all. The step that applies a
\* response leaves every instrument of the batch with the batch's reading as
\* its latest reading and at the head of its history (and with a direction
\* entry where directions are kept); the step of a failed request changes
\* none of the maps and not lastUpdate.
C11_BatchAtomic ==
  [][/\ \A f \in inflight : \A response \in Responses(f.ids, f.at) :
          FetchSuccess(f, response) =>
            \A k \in DOMAIN response.Feeds :
              LET id         == response.Feeds[k].StockId
                  normalized == normalizeFeed(response.Feeds[k],
                                              NewDate(response.LastUpdate))
              IN  /\ id \in DOMAIN latestFeedsByStock'
                  /\ latestFeedsByStock'[id] = normalized
                  /\ id \in DOMAIN feedHistoryByStock'
                  /\ feedHistoryByStock'[id][1] = normalized
                  /\ variant = "modes" => id \in DOMAIN rateDirectionsByStock'
     /\ \A f \in inflight : FetchError(f) => UNCHANGED cacheVars]_vars

\* A batch of two instruments has been applied: both have a latest reading
\* and a history head of the batch's timestamp, which is lastUpdate.
C11_Witness ==
  /\ lastUpdate # Null
  /\ lastUpdate[1] >= 0
  /\ \A id \in StockIds :
       /\ id \in DOMAIN latestFeedsByStock
       /\ latestFeedsByStock[id].timestamp = lastUpdate[1]
       /\ HistoryOf(id) # <<>>
       /\ HistoryOf(id)[1].timestamp = lastUpdate[1]

\* C12: on ingest each side's direction is "up" when the new value is
\* greater than that of the instrument's latest reading before the update,
\* "down" when smaller, and "neutral" when they are equal, when either is
\* null or when there was no previous reading.
C12_DirectionAgainstPrevious ==
  [][\A f \in inflight : \A response \in Responses(f.ids, f.at) :
       (variant = "modes" /\ FetchSuccess(f, response)) =>
         \A k \in DOMAIN response.Feeds :
           LET id   == response.Feeds[k].StockId
               new  == normalizeFeed(response.Feeds[k], NewDate(response.LastUpdate))
               had  == id \in DOMAIN latestFeedsByStock
               side(cur, prev) ==
                 IF cur # Null /\ prev # Null /\ Less(prev[1], cur[1]) THEN "up"
                 ELSE IF cur # Null /\ prev # Null /\ Less(cur[1], prev[1]) THEN "down"
                 ELSE "neutral"
           IN  /\ rateDirectionsByStock'[id].buyRateDirection =
                    (IF had THEN side(new.buyPrice, latestFeedsByStock[id].buyPrice)
                     ELSE "neutral")
               /\ rateDirectionsByStock'[id].sellRateDirection =
                    (IF had THEN side(new.sellPrice, latestFeedsByStock[id].sellPrice)
                     ELSE "neutral")]_vars

\* Directions of all three kinds have been computed: a side went up, a side
\* went down, and a side is neutral because the previous price was null.
C12_Witness ==
  /\ DOMAIN rateDirectionsByStock = StockIds
  /\ \E id \in StockIds : rateDirectionsByStock[id].buyRateDirection = "up"
  /\ \E id \in StockIds : rateDirectionsByStock[id].sellRateDirection = "down"
  /\ \E id \in StockIds :
       /\ Len(HistoryOf(id)) >= 2
       /\ HistoryOf(id)[1] = latestFeedsByStock[id]
       /\ HistoryOf(id)[1].buyPrice # Null
       /\ HistoryOf(id)[2].buyPrice = Null
       /\ rateDirectionsByStock[id].buyRateDirection = "neutral"

\* C13: applying a batch changes the latest reading, the history and the
\* direction entry only of the instruments of the batch; for every other
\* instrument the three are as they were (present or absent, and equal).
C13_IngestFrame ==
  [][\A f \in inflight : \A response \in Responses(f.ids, f.at) :
       FetchSuccess(f, response) =>
         LET batch == { response.Feeds[k].StockId : k \in DOMAIN response.Feeds }
         IN  \A id \in StockIds \ batch :
               /\ id \in DOMAIN latestFeedsByStock' <=> id \in DOMAIN latestFeedsByStock
               /\ id \in DOMAIN latestFeedsByStock =>
                    latestFeedsByStock'[id] = latestFeedsByStock[id]
               /\ id \in DOMAIN feedHistoryByStock' <=> id \in DOMAIN feedHistoryByStock
               /\ id \in DOMAIN feedHistoryByStock =>
                    feedHistoryByStock'[id] = feedHistoryByStock[id]
               /\ id \in DOMAIN rateDirectionsByStock' <=>
                    id \in DOMAIN rateDirectionsByStock
               /\ id \in DOMAIN rateDirectionsByStock =>
                    rateDirectionsByStock'[id] = rateDirectionsByStock[id]]_vars

\* A batch of stock 1 alone has been applied while stock 2 has readings and
\* a direction entry of an earlier batch.
C13_Witness ==
  /\ StockIds \subseteq DOMAIN latestFeedsByStock
  /\ lastUpdate = Some(latestFeedsByStock[1].timestamp)
  /\ latestFeedsByStock[1].timestamp >= 0
  /\ latestFeedsByStock[2].timestamp < latestFeedsByStock[1].timestamp
  /\ HistoryOf(2) # <<>>
  /\ 2 \in DOMAIN rateDirectionsByStock

\* C14 as claimed: for every instrument the latest reading is the head of
\* its history, and it is absent exactly when the history is empty.
C14_LatestIsHead ==
  \A id \in StockIds :
    /\ id \in DOMAIN latestFeedsByStock <=> HistoryOf(id) # <<>>
    /\ HistoryOf(id) # <<>> => latestFeedsByStock[id] = HistoryOf(id)[1]

\* C14 amended: an instrument with a non-empty history has a latest reading,
\* which is the head of the history; a history that is present is not empty;
\* and in the service without clearFeedHistory the latest reading is absent
\* exactly when the history is (clearFeedHistory empties a history and
\* leaves the latest reading).
C14_LatestIsHeadOfNonEmpty ==
  /\ \A id \in DOMAIN feedHistoryByStock :
       /\ feedHistoryByStock[id] # <<>>
       /\ id \in DOMAIN latestFeedsByStock
       /\ latestFeedsByStock[id] = feedHistoryByStock[id][1]
  /\ variant = "modes" => DOMAIN latestFeedsByStock = DOMAIN feedHistoryByStock

\* A history of this behaviour's readings whose head is the latest reading,
\* next to a latest reading whose history clearFeedHistory has emptied.
C14_Witness ==
  /\ \E id \in DOMAIN latestFeedsByStock : HistoryOf(id) = <<>>
  /\ \E id \in DOMAIN feedHistoryByStock :
       /\ Len(feedHistoryByStock[id]) >= 2
       /\ feedHistoryByStock[id][1].timestamp >= 0
       /\ latestFeedsByStock[id] = feedHistoryByStock[id][1]

\* C15: whatever raw buy and sell values a feed carries (finite number, NaN,
\* an infinity, numeric string, "Infinity" / "-Infinity", non-numeric
\* string), parsePrice gives a finite number or null for each, and the feed
\* is stored, with these prices, as the latest reading and the head of the
\* history of its instrument.
C15_PricesFiniteOrNull ==
  received # Null =>
    \A k \in DOMAIN received[1].Feeds :
      LET feed == received[1].Feeds[k]
          buy  == parsePrice(feed.BuyPrice)
          sell == parsePrice(feed.SellPrice)
      IN  /\ buy = Null \/ isFinite(buy[1])
          /\ sell = Null \/ isFinite(sell[1])
          /\ feed.StockId \in DOMAIN latestFeedsByStock
          /\ latestFeedsByStock[feed.StockId].buyPrice = PriceValue(buy)
          /\ latestFeedsByStock[feed.StockId].sellPrice = PriceValue(sell)
          /\ HistoryOf(feed.StockId) = <<latestFeedsByStock[feed.StockId]>>

\* A feed with the "-Infinity" sentinel as buy price and NaN as sell price
\* has been stored with both prices null.
C15_Witness ==
  /\ received # Null
  /\ received[1].Feeds[1].BuyPrice = StringValue(<<"-">> \o InfinityLiteral)
  /\ received[1].Feeds[1].SellPrice = NumberValue(NaN)
  /\ latestFeedsByStock[received[1].Feeds[1].StockId].buyPrice = Null
  /\ latestFeedsByStock[received[1].Feeds[1].StockId].sellPrice = Null

\* C16: startPollingAllStocks with an empty list does nothing: no request is
\* issued, no timer is armed or cancelled, and the polling mode, the requests
\* in flight and the feed cache are as before, whatever the state it is
\* called in.
C16_EmptyPollAllIsNoOp ==
  [][startPollingAllStocks(<<>>) =>
       UNCHANGED <<timers, inflight, issued, pollingMode, isPolling, cacheVars>>]_vars

\* The state of a call that could disturb something: single-stock polling
\* is on, its timer is armed, a request is in flight and the cache is filled.
C16_Witness ==
  /\ variant = "modes"
  /\ pollingMode = Some("single")
  /\ timers # {}
  /\ inflight # {}
  /\ DOMAIN latestFeedsByStock = StockIds
  /\ ENABLED startPollingAllStocks(<<>>)

\* The requests dispatched by the step.
Dispatched == { g \in inflight' : g.n > issued }

\* C17: a start of polling (all stocks, or one stock) dispatches exactly one
\* request at once, for the instruments it was given, and arms one timer for
\* the same instruments; every tick of a timer dispatches exactly one request,
\* for the timer's instruments, which are those of the mode (all stocks in
\* mode 'all', one stock in mode 'single'); no other step dispatches a
\* request.
C17_OneFetchPerStartAndTick ==
  [][/\ issued' - issued = Cardinality(Dispatched)
     /\ \A ids \in StockIdLists \ {<<>>} :
          startPollingAllStocks(ids) =>
            /\ Dispatched = {Request(issued + 1, ids, "initial", 0, clock)}
            /\ Cardinality(timers') = 1
            /\ \A t \in timers' : t.ids = ids
     /\ \A stockId \in DetailStockIds :
          (switchToSingleStockPolling(stockId)
             \/ (startPollingStockFeeds(stockId) /\ ~isPolling)) =>
            /\ Dispatched = {Request(issued + 1, <<stockId>>, "initial", 0, clock)}
            /\ Cardinality(timers') = 1
            /\ \A t \in timers' : t.ids = <<stockId>>
     /\ (startPollingAllFeeds /\ ~isPolling) =>
            /\ Dispatched = {Request(issued + 1, AllStockIds, "initial", 0, clock)}
            /\ Cardinality(timers') = 1
            /\ \A t \in timers' : t.ids = AllStockIds
     /\ \A t \in timers :
          Tick(t) =>
            /\ Dispatched = {Request(issued + 1, t.ids, "timer", t.id, clock + 1)}
            /\ pollingMode # Null \/ isPolling
            /\ pollingMode = Some("all") => t.ids = AllStockIds
            /\ pollingMode = Some("single") => Len(t.ids) = 1
     /\ Dispatched # {} =>
          \/ \E ids \in StockIdLists : startPollingAllStocks(ids)
          \/ \E stockId \in DetailStockIds : switchToSingleStockPolling(stockId)
          \/ startPollingAllFeeds
          \/ \E stockId \in DetailStockIds : startPollingStockFeeds(stockId)
          \/ \E t \in timers : Tick(t)]_vars

\* Single-stock polling has dispatched its initial request and the request
\* of a tick, both for the one stock, and both are in flight.
C17_Witness ==
  /\ pollingMode = Some("single")
  /\ \E g \in inflight : g.src = "initial" /\ g.ids = <<1>>
  /\ \E g \in inflight : g.src = "timer" /\ g.ids = <<1>> /\ g.tid # 0

\* C18: once a component has been destroyed no timer is armed on its behalf:
\* an armed timer was armed on behalf of the component alive.
C18_NoTimerForDestroyedScreen ==
  timers # {} => timerOwner = screen.no

\* C19: while the detail screen of x is alive the scheduler is in mode
\* 'single', polling x alone, and while the list screen is alive it is not
\* in mode 'single'.
C19_ModeMatchesScreen ==
  /\ screen.kind = "detail" /\ screen.id # 0 =>
       /\ pollingMode = Some("single")
       /\ \A t \in timers : t.ids = <<screen.id>>
  /\ screen.kind = "list" => pollingMode # Some("single")

\* C20: every history is ordered newest first by timestamp: the timestamp at
\* a position is not earlier than the one at the next position.
C20_HistoryTimeOrdered ==
  \A id \in DOMAIN feedHistoryByStock :
    \A i \in 1..(Len(feedHistoryByStock[id]) - 1) :
      feedHistoryByStock[id][i].timestamp >= feedHistoryByStock[id][i + 1].timestamp

\* C21: with n the number of readings stored for a stock since its history
\* was last cleared (or since the start), the history is the last
\* min(n, MAX_FEED_HISTORY) of them, the newest first, and for n >= 1 the
\* latest reading is the n-th.
C21_HistoryIsLastIngested ==
  \A id \in StockIds :
    LET n == Len(ingested[id])
        m == IF n < MAX_FEED_HISTORY THEN n ELSE MAX_FEED_HISTORY
    IN  /\ HistoryOf(id) = [k \in 1..m |-> ingested[id][n - k + 1]]
        /\ n >= 1 => /\ id \in DOMAIN latestFeedsByStock
                      /\ latestFeedsByStock[id] = ingested[id][n]

\* More readings than the cap have been stored for a stock since its
\* history was last cleared.
C21_Witness ==
  \E id \in StockIds :
    /\ Len(ingested[id]) > MAX_FEED_HISTORY
    /\ Len(HistoryOf(id)) = MAX_FEED_HISTORY

\* C22: once the stock list is cached (non-empty), no step issues another
\* getStocks() request and the cached list does not change.
C22_FetchOnlyWhenEmpty ==
  [][Len(stocks) > 0 => /\ stockRequests' \subseteq stockRequests
                        /\ stocks' = stocks]_vars

\* C23: after one or more successful fetches that returned the same list,
\* the cached list is that list, the lookup map has exactly the ids of the
\* list as keys, getStockById(id) is a stock of the list with Id = id for each
\* of them, and is absent for every other id.
C23_FetchIdempotent ==
  fetched >= 1 =>
    /\ stocks \in StockLists
    /\ DOMAIN stocksMap = { stocks[k].Id : k \in 1..Len(stocks) }
    /\ \A id \in StockIds \cup {0, 999} :
         IF \E k \in 1..Len(stocks) : stocks[k].Id = id
         THEN /\ getStockById(id) # Null
              /\ getStockById(id)[1].Id = id
              /\ \E k \in 1..Len(stocks) : stocks[k] = getStockById(id)[1]
         ELSE getStockById(id) = Null

\* The same non-empty list has been fetched twice in a row.
C23_Witness == fetched >= 2 /\ Len(stocks) > 0

\* The rows of feedsWithCalculations read last, and the history they were
\* computed from.
MetricRows == IF calc # Null /\ calc[1].view = "feedsWithCalculations"
              THEN calc[1].rows ELSE <<>>

MetricFeeds == IF calc # Null /\ calc[1].view = "feedsWithCalculations"
               THEN HistoryOf(calc[1].id) ELSE <<>>

\* C24: the spread of every reading is its buy price minus its sell price
\* (the double nearest to the difference) when both are non-null, and null
\* when either is null.
C24_SpreadIsBuyMinusSell ==
  \A i \in 1..Len(MetricRows) :
    LET reading == MetricFeeds[i]
    IN  IF reading.buyPrice # Null /\ reading.sellPrice # Null
        THEN /\ MetricRows[i].spread # Null
             /\ StrictEquals(MetricRows[i].spread[1],
                             ToDouble(Minus(reading.buyPrice[1], reading.sellPrice[1])))
        ELSE MetricRows[i].spread = Null

\* Rows were computed with a non-zero spread and with a null spread.
C24_Witness ==
  /\ \E i \in 1..Len(MetricRows) :
       /\ MetricRows[i].spread # Null
       /\ isFinite(MetricRows[i].spread[1])
       /\ ~IsZero(MetricRows[i].spread[1].val)
  /\ \E i \in 1..Len(MetricRows) :
       MetricRows[i].spread = Null /\ MetricFeeds[i].buyPrice # Null

\* percent is (current - previous) / previous * 100 for previous # 0: the
\* difference, the quotient and the product each rounded to a double, an
\* infinity once a step is past the range of a double.
IsPercentChange(percent, current, previous) ==
  LET change == ToDouble(Minus(current, previous))
      ratio  == IF isFinite(change) THEN ToDouble(Over(change.val, previous))
                ELSE SignedInfinity(change.val.neg # previous.neg)
  IN  percent = IF isFinite(ratio) THEN ToDouble(Times(ratio.val, Hundred.val))
                ELSE ratio

\* C25 as claimed: an entry whose previous (older) entry has a non-null,
\* non-zero sell price has the percent change (current.sell - previous.sell)
\* / previous.sell * 100, a null current sell price counting as 0 in the
\* subtraction, and every other entry has a null percent change.
C25_PercentChangeWheneverPreviousValid ==
  \A i \in 1..Len(MetricRows) :
    LET percent == MetricRows[i].sellRateChangePercent
    IN  IF /\ i < Len(MetricFeeds)
           /\ MetricFeeds[i + 1].sellPrice # Null
           /\ ~IsZero(MetricFeeds[i + 1].sellPrice[1])
        THEN /\ percent # Null
             /\ IsPercentChange(percent[1],
                                IF MetricFeeds[i].sellPrice = Null THEN Zero
                                ELSE MetricFeeds[i].sellPrice[1],
                                MetricFeeds[i + 1].sellPrice[1])
        ELSE percent = Null

\* C25 as amended: the percent change is the formula when the entry's own
\* sell price is non-null and its previous entry has a non-null, non-zero
\* sell price; it is null when there is no previous entry, when the entry's
\* own sell price is null, or when the previous sell price is null or zero.
C25_PercentChangeWhenBothValid ==
  \A i \in 1..Len(MetricRows) :
    LET percent == MetricRows[i].sellRateChangePercent
    IN  IF /\ i < Len(MetricFeeds)
           /\ MetricFeeds[i].sellPrice # Null
           /\ MetricFeeds[i + 1].sellPrice # Null
           /\ ~IsZero(MetricFeeds[i + 1].sellPrice[1])
        THEN /\ percent # Null
             /\ IsPercentChange(percent[1], MetricFeeds[i].sellPrice[1],
                                MetricFeeds[i + 1].sellPrice[1])
        ELSE percent = Null

\* A row whose percent change is a non-zero number, computed from a history
\* whose newest entry has a previous entry.
C25_Witness ==
  /\ Len(MetricRows) >= 2
  /\ MetricRows[1].sellRateChangePercent # Null
  /\ isFinite(MetricRows[1].sellRateChangePercent[1])
  /\ ~IsZero(MetricRows[1].sellRateChangePercent[1].val)
  /\ MetricRows[Len(MetricRows)].sellRateChangePercent = Null

\* C26: the rows are one per reading in the order of the history; row i
\* carries reading i and takes reading i + 1 as its previous, so the last
\* row has a null percent change, and an empty history gives no row.
C26_RowsFollowHistory ==
  calc # Null /\ calc[1].view = "feedsWithCalculations" =>
    /\ Len(MetricRows) = Len(MetricFeeds)
    /\ \A i \in 1..Len(MetricRows) :
         /\ MetricRows[i].feed = MetricFeeds[i]
         /\ MetricRows[i].sellRateChangePercent =
              IF i < Len(MetricFeeds)
              THEN calculatePercentChange(MetricFeeds[i].sellPrice,
                                          MetricFeeds[i + 1].sellPrice)
              ELSE Null
    /\ MetricFeeds = <<>> => MetricRows = <<>>

\* Rows computed from a history of two different readings or more, the
\* first with a percent change.
C26_Witness ==
  /\ Len(MetricRows) >= 2
  /\ MetricFeeds[1] # MetricFeeds[2]
  /\ MetricRows[1].sellRateChangePercent # Null
  /\ MetricRows[2].feed.sellPrice # MetricRows[1].feed.sellPrice

\* The rows of stocksWithFeeds read last.
StockRows == IF calc # Null /\ calc[1].view = "stocksWithFeeds"
             THEN calc[1].rows ELSE <<>>

\* C27: the daily change of a stock is (newest.buy - oldest.buy) /
\* oldest.buy * 100 over the history retained for it, newest at position 0
\* and oldest at the last position, and 0 when the history has fewer than
\* two entries or the oldest buy price is null or zero. The formula has no
\* value for a newest entry without a buy price, of which nothing is stated.
C27_DailyChangeNewestToOldest ==
  \A k \in 1..Len(StockRows) :
    LET history == HistoryOf(stocks[k].Id)
        change  == StockRows[k].dailyBuyRateChange
    IN  IF \/ Len(history) < 2
           \/ history[Len(history)].buyPrice = Null
           \/ IsZero(history[Len(history)].buyPrice[1])
        THEN change = Finite(Zero)
        ELSE history[1].buyPrice # Null
               => IsPercentChange(change, history[1].buyPrice[1],
                                  history[Len(history)].buyPrice[1])

\* The daily change of one stock is a non-zero number, computed from a
\* history of two entries with buy prices, and that of another, which has
\* no history, is 0.
C27_Witness ==
  /\ \E k \in 1..Len(StockRows) :
       /\ isFinite(StockRows[k].dailyBuyRateChange)
       /\ ~IsZero(StockRows[k].dailyBuyRateChange.val)
       /\ Len(HistoryOf(stocks[k].Id)) >= 2
       /\ HistoryOf(stocks[k].Id)[1].buyPrice # Null
  /\ \E k \in 1..Len(StockRows) :
       /\ StockRows[k].dailyBuyRateChange = Finite(Zero)
       /\ HistoryOf(stocks[k].Id) = <<>>

\* C28: clearAllFeedHistory leaves the latest-feed map, the history map and
\* the rate-direction map empty: every stock then has an empty history, no
\* latest feed and no direction entry.
C28_ClearAllEmptiesMaps ==
  [][clearAllFeedHistory =>
       /\ latestFeedsByStock' = EmptyMap
       /\ feedHistoryByStock' = EmptyMap
       /\ rateDirectionsByStock' = EmptyMap
       /\ \A id \in StockIds :
            /\ id \notin DOMAIN feedHistoryByStock'
            /\ id \notin DOMAIN latestFeedsByStock'
            /\ id \notin DOMAIN rateDirectionsByStock']_vars

\* The cache of the warm start, whose three maps were full, has been
\* cleared before any response was applied.
C28_Witness ==
  /\ variant = "modes"
  /\ lastUpdate = Some(-(WarmGap * POLLING_INTERVAL_MS))
  /\ latestFeedsByStock = EmptyMap
  /\ feedHistoryByStock = EmptyMap
  /\ rateDirectionsByStock = EmptyMap

\* C29: clearFeedHistory(x) empties the history of x and changes neither
\* the history of any other stock, nor the latest-feed map (the entry of x
\* included), nor lastUpdate, nor the scheduler; when x has no history
\* nothing changes at all.
C29_ClearOneFrame ==
  [][\A x \in StockIds :
       clearFeedHistory(x) =>
         /\ x \notin DOMAIN feedHistoryByStock'
         /\ \A other \in StockIds \ {x} :
              /\ other \in DOMAIN feedHistoryByStock'
                   <=> other \in DOMAIN feedHistoryByStock
              /\ other \in DOMAIN feedHistoryByStock =>
                   feedHistoryByStock'[other] = feedHistoryByStock[other]
         /\ latestFeedsByStock' = latestFeedsByStock
         /\ lastUpdate' = lastUpdate
         /\ <<isPolling, pollingMode, timers, inflight, issued, clock>>'
              = <<isPolling, pollingMode, timers, inflight, issued, clock>>
         /\ x \notin DOMAIN feedHistoryByStock =>
              <<feedHistoryByStock, rateDirectionsByStock>>'
                = <<feedHistoryByStock, rateDirectionsByStock>>]_vars

\* The history of a stock has been cleared while polling was under way:
\* the stock has a latest feed and no history, the other stock has both.
C29_Witness ==
  /\ variant = "flag"
  /\ isPolling
  /\ \E x \in StockIds :
       /\ x \notin DOMAIN feedHistoryByStock
       /\ x \in DOMAIN latestFeedsByStock
       /\ \E other \in StockIds \ {x} : other \in DOMAIN feedHistoryByStock

\* C30 as claimed: a stock with no reading stored since the start or since
\* its history was last cleared has an empty history and no latest feed.
C30_NoReadingsNothingToRead ==
  \A id \in StockIds :
    Len(ingested[id]) = 0 =>
      /\ HistoryOf(id) = <<>>
      /\ getLatestFeedForStock(id) = Null

\* C30 as amended: a stock with no reading stored since the start or since
\* its history was last cleared has an empty history; it has no latest feed
\* when no reading was ever stored for it or when it was cleared by
\* clearAllFeedHistory (a latest feed appears only when a reading is stored,
\* and the service that has clearAllFeedHistory has none for such a stock).
C30_NoReadingsEmptyHistory ==
  /\ [](\A id \in StockIds :
          Len(ingested[id]) = 0 =>
            /\ HistoryOf(id) = <<>>
            /\ variant = "modes" => getLatestFeedForStock(id) = Null)
  /\ [][\A id \in StockIds :
          getLatestFeedForStock(id) = Null /\ Len(ingested'[id]) = 0
            => id \notin DOMAIN latestFeedsByStock']_vars

\* One stock has readings and the other, cleared or never polled, has none:
\* its history reads empty and its latest feed absent.
C30_Witness ==
  /\ lastUpdate # Null
  /\ \E id \in StockIds :
       /\ Len(ingested[id]) = 0
       /\ HistoryOf(id) = <<>>
       /\ getLatestFeedForStock(id) = Null
       /\ \E other \in StockIds \ {id} : Len(ingested[other]) > 0

\* C31: while the detail screen is open with an id that no cached stock
\* has, the stock lookup is absent and the precision is the default 2; while
\* it is open with no id, the screen has started no polling and the history
\* it displays is empty.
C31_AbsentStockFallsBack ==
  screen.kind = "detail" =>
    /\ (screen.id # 0 /\ \A k \in 1..Len(stocks) : stocks[k].Id # screen.id) =>
         /\ DetailStock = Null
         /\ DetailPrecision = 2
    /\ screen.id = 0 =>
         /\ timerOwner # screen.no
         /\ DetailFeedHistory = <<>>
         /\ DetailStock = Null
         /\ DetailPrecision = 2

\* The detail screen of stock 1 is open, polling, with readings displayed,
\* while the stock list that was fetched is empty.
C31_Witness ==
  /\ screen.kind = "detail"
  /\ screen.id # 0
  /\ fetched >= 1
  /\ stocks = <<>>
  /\ DetailFeedHistory # <<>>
  /\ DetailPrecision = 2

\* C32: while the scheduler stays in mode 'single' for stock x, no step
\* other than clearAllFeedHistory changes the history or the latest feed of
\* any other stock.
C32_OthersPausedInSingleMode ==
  [][\A t \in timers :
       (/\ pollingMode = Some("single")
        /\ pollingMode' = Some("single")
        /\ t \in timers'
        /\ ~clearAllFeedHistory)
       => \A other \in StockIds :
            other # t.ids[1] =>
              /\ other \in DOMAIN feedHistoryByStock'
                   <=> other \in DOMAIN feedHistoryByStock
              /\ other \in DOMAIN feedHistoryByStock =>
                   feedHistoryByStock'[other] = feedHistoryByStock[other]
              /\ other \in DOMAIN latestFeedsByStock'
                   <=> other \in DOMAIN latestFeedsByStock
              /\ other \in DOMAIN latestFeedsByStock =>
                   latestFeedsByStock'[other] = latestFeedsByStock[other]]_vars

\* C33: the daily change shown for a stock is the percent change of the buy
\* price from the first reading stored for it to the latest one, whenever
\* at least two readings were stored, the first with a non-null, non-zero
\* buy price and the latest with a non-null one.
C33_DailyChangeFromFirstKnown ==
  \A k \in 1..Len(ServerStocks) :
    LET id     == ServerStocks[k].Id
        n      == Len(ingested[id])
        change == StockWithLatestFeed(ServerStocks[k]).dailyBuyRateChange
    IN  (/\ n >= 2
         /\ ingested[id][1].buyPrice # Null
         /\ ~IsZero(ingested[id][1].buyPrice[1])
         /\ ingested[id][n].buyPrice # Null)
        => IsPercentChange(change, ingested[id][n].buyPrice[1],
                           ingested[id][1].buyPrice[1])

\* C34: when a response is applied, lastUpdate becomes the response's
\* LastUpdate, also when it carries no feed, and the latest feed and the
\* head of the history of every stock in the response carry that timestamp.
C34_BatchTimestamp ==
  [][\A f \in inflight :
       \A response \in Responses(f.ids, f.at) :
         FetchSuccess(f, response) =>
           /\ lastUpdate' = Some(NewDate(response.LastUpdate))
           /\ \A k \in 1..Len(response.Feeds) :
                LET id == response.Feeds[k].StockId
                IN  /\ latestFeedsByStock'[id].timestamp = NewDate(response.LastUpdate)
                    /\ feedHistoryByStock'[id][1].timestamp
                         = NewDate(response.LastUpdate)]_vars

\* A response without feeds has been applied to a cache that holds readings
\* of every stock: lastUpdate is later than every latest feed.
C34_Witness ==
  /\ lastUpdate # Null
  /\ \A id \in StockIds :
       /\ id \in DOMAIN latestFeedsByStock
       /\ latestFeedsByStock[id].timestamp < lastUpdate[1]

\* C35: in the service with polling modes, getPollingMode() is non-null and
\* isPollingActive() true exactly when an interval is subscribed, 'all'
\* exactly when one is subscribed for the full list of stocks, and 'single'
\* exactly when one is subscribed for one stock.
C35_ModeAgreesWithTimer ==
  variant = "modes" =>
    /\ isPollingActive <=> timers # {}
    /\ getPollingMode # Null <=> timers # {}
    /\ getPollingMode = Some("all") <=> \E t \in timers : t.ids = AllStockIds
    /\ getPollingMode = Some("single") <=> \E t \in timers : Len(t.ids) = 1

\* up, down or neutral: how the price current compares with previous, neutral
\* when either is null or the two are equal.
Classification(current, previous) ==
  IF current # Null /\ previous # Null /\ Less(previous[1], current[1]) THEN "up"
  ELSE IF current # Null /\ previous # Null /\ Less(current[1], previous[1]) THEN "down"
  ELSE "neutral"

\* C36: in the service that keeps rate directions a stock has a direction
\* entry exactly when it has a latest feed; with two readings or more in its
\* history the directions classify position 0 against position 1, and with
\* exactly one reading both are neutral.
C36_DirectionsFollowHistory ==
  variant = "modes" =>
    \A id \in StockIds :
      /\ id \in DOMAIN rateDirectionsByStock <=> id \in DOMAIN latestFeedsByStock
      /\ Len(HistoryOf(id)) >= 2 =>
           /\ id \in DOMAIN rateDirectionsByStock
           /\ rateDirectionsByStock[id].buyRateDirection =
                Classification(HistoryOf(id)[1].buyPrice, HistoryOf(id)[2].buyPrice)
           /\ rateDirectionsByStock[id].sellRateDirection =
                Classification(HistoryOf(id)[1].sellPrice, HistoryOf(id)[2].sellPrice)
      /\ Len(HistoryOf(id)) = 1 =>
           /\ id \in DOMAIN rateDirectionsByStock
           /\ rateDirectionsByStock[id].buyRateDirection = "neutral"
           /\ rateDirectionsByStock[id].sellRateDirection = "neutral"

\* Starting from an empty cache a stock has taken two readings or more, and
\* its newest reading moved one price and left the other where it was.
C36_Witness ==
  /\ variant = "modes"
  /\ \E id \in StockIds :
       /\ Len(HistoryOf(id)) \in 2..MaxFetches
       /\ rateDirectionsByStock[id].sellRateDirection # "neutral"
       /\ rateDirectionsByStock[id].buyRateDirection = "neutral"
       /\ HistoryOf(id)[1].sellPrice # HistoryOf(id)[2].sellPrice


\* C37: clearAllFeedHistory leaves the polling mode, the armed timers, the
\* requests in flight and lastUpdate as they were, so that polling is active
\* after it exactly when it was before; a request in flight, answered, is
\* ingested whatever was cleared before; and a reading stored for a stock
\* that has no latest feed is the only entry of its history, with both
\* directions neutral.
C37_ClearAllKeepsPolling ==
  [][/\ clearAllFeedHistory =>
          /\ pollingMode' = pollingMode
          /\ timers' = timers
          /\ inflight' = inflight
          /\ lastUpdate' = lastUpdate
          /\ isPollingActive' <=> isPollingActive
     /\ variant = "modes" =>
          \A f \in inflight :
            \A response \in Responses(f.ids, f.at) :
              FetchSuccess(f, response) =>
                \A k \in 1..Len(response.Feeds) :
                  LET id == response.Feeds[k].StockId
                  IN  /\ id \in DOMAIN latestFeedsByStock'
                      /\ id \notin DOMAIN latestFeedsByStock =>
                           /\ Len(feedHistoryByStock'[id]) = 1
                           /\ rateDirectionsByStock'[id].buyRateDirection = "neutral"
                           /\ rateDirectionsByStock'[id].sellRateDirection = "neutral"]_vars

\* The cache of the warm start has just been cleared while polling: the
\* mode is set, a timer is armed and a request is in flight.
C37_Witness ==
  /\ variant = "modes"
  /\ lastUpdate = Some(-(WarmGap * POLLING_INTERVAL_MS))
  /\ latestFeedsByStock = EmptyMap
  /\ feedHistoryByStock = EmptyMap
  /\ rateDirectionsByStock = EmptyMap
  /\ isPollingActive
  /\ timers # {}
  /\ inflight # {}


\* C38 as claimed: the percent change of a history entry is null whenever
\* the entry's own sell price is null, whatever its previous entry holds; a
\* percent change that is not null was computed from two sell prices that
\* are not null, the previous one not zero, and is neither NaN nor an
\* infinity.
C38_NullSellNullChange ==
  \A i \in 1..Len(MetricRows) :
    LET percent == MetricRows[i].sellRateChangePercent
    IN  /\ MetricFeeds[i].sellPrice = Null => percent = Null
        /\ percent # Null =>
             /\ MetricFeeds[i].sellPrice # Null
             /\ i < Len(MetricFeeds)
             /\ MetricFeeds[i + 1].sellPrice # Null
             /\ ~IsZero(MetricFeeds[i + 1].sellPrice[1])
             /\ isFinite(percent[1])

\* C38 as amended: the percent change of a history entry is null whenever
\* the entry's own sell price is null, whatever its previous entry holds; a
\* percent change that is not null was computed from two sell prices that
\* are not null, the previous one not zero, is never NaN, and is an
\* infinity only when a step of the arithmetic on the two prices (the
\* difference, the quotient or the product) is past the range of a double.
C38_NullSellNullChangeNeverNaN ==
  \A i \in 1..Len(MetricRows) :
    LET percent == MetricRows[i].sellRateChangePercent
    IN  /\ MetricFeeds[i].sellPrice = Null => percent = Null
        /\ percent # Null =>
             /\ MetricFeeds[i].sellPrice # Null
             /\ i < Len(MetricFeeds)
             /\ MetricFeeds[i + 1].sellPrice # Null
             /\ ~IsZero(MetricFeeds[i + 1].sellPrice[1])
             /\ percent[1].kind # "NaN"
             /\ ~isFinite(percent[1]) =>
                  LET current  == MetricFeeds[i].sellPrice[1]
                      previous == MetricFeeds[i + 1].sellPrice[1]
                      change   == JsMinus(Finite(current), Finite(previous))
                      ratio    == JsDivide(change, Finite(previous))
                  IN  \/ Overflows(Minus(current, previous))
                      \/ isFinite(change) /\ Overflows(Over(change.val, previous))
                      \/ isFinite(ratio) /\ Overflows(Times(ratio.val, Hundred.val))

\* The newest entry has a null sell price and its previous entry a valid
\* one: the row of the newest entry has a null percent change.
C38_Witness ==
  /\ Len(MetricRows) >= 2
  /\ MetricFeeds[1].sellPrice = Null
  /\ MetricFeeds[2].sellPrice # Null
  /\ ~IsZero(MetricFeeds[2].sellPrice[1])
  /\ MetricRows[1].sellRateChangePercent = Null

=============================================================================
